---------------------------- MODULE Spec2Model ----------------------------
(***************************************************************************)
(* Card inventory ledger and recharge-request workflow of the bot:         *)
(*   app/services/cards.py      CardService                                *)
(*   app/services/requests.py   RequestService                             *)
(*   app/handlers/requests.py   request submission, manager and accounting *)
(*                              decisions, card delivery                   *)
(*   app/handlers/admin.py      admin direct send                          *)
(*   app/handlers/responsible.py responsible direct send                   *)
(*                                                                         *)
(* Eleven specifications share the persisted state.                        *)
(*   SpecTxn  the ledger operations as database transactions: the row      *)
(*            locks they take, their uncommitted writes, commit and        *)
(*            rollback at any point.  The store gives row locks and        *)
(*            FOR UPDATE SKIP LOCKED as the code asks for them.            *)
(*   SpecReq  the request service calls in any order with any arguments.   *)
(*   Spec     the handler flows; each service call is one transaction and  *)
(*            is taken as one step, the handlers interleave between calls. *)
(*            A handler that answers and returns before its first write    *)
(*            takes no step.  The inventory is stocked before the card     *)
(*            handlers run, direct sends run one at a time, and at most    *)
(*            MaxFaults calls or deliveries fail.                          *)
(*   SpecLive the ledger calls with the call and its SELECT as two steps,  *)
(*            session s1 served fairly, session s2 free to stay stuck.     *)
(*   SpecSubmit  request submission for every user, followed by request    *)
(*            service calls.                                               *)
(*   SpecTwoTier  submission, manager decision and accounting decision,    *)
(*            one handler invocation after the other.                      *)
(*   SpecAdd  add_card with its argument check and the table constraints   *)
(*            on amount and serial number, two sessions.                   *)
(*   SpecReqTxn  the request service calls statement by statement, with    *)
(*            the request row lock, two sessions.                          *)
(*   SpecCore the card service and the request service called with ids     *)
(*            that may have no row, each call made and then ended.         *)
(*   SpecReport  record_monthly_report statement by statement, two         *)
(*            sessions.                                                    *)
(*   SpecAuth the decision handlers with every user of the directory as    *)
(*            the acting user, two invocations at a time.                  *)
(***************************************************************************)
EXTENDS Integers, Sequences, FiniteSets, TLC

\* ------------------------------------------------------------------ bounds
MaxCards == 2        \* card rows that may be inserted
MaxLog   == 4        \* inventory-log rows written in SpecTxn
MaxRequests == 1     \* requests created in SpecReq, submitted in Spec
MaxRuns  == 2        \* card-handling handler invocations begun in Spec
MaxFaults == 1       \* calls and deliveries that fail in Spec
MaxHistory == 4      \* request-history rows written in SpecReq

CardIds     == 1..MaxCards
Sessions    == {"s1", "s2"}     \* concurrent database sessions (SpecTxn)
None        == 0                \* NULL / Python None for ids

\* ------------------------------------------------------------------ enums
CardType        == {"ASIA", "ATHIR"}
CardTypeOrder   == <<"ASIA", "ATHIR">>
CardStatus      == {"AVAILABLE", "RESERVED", "SENT", "ARCHIVED"}
InventoryAction == {"ADD", "RESERVE", "SEND", "RESTORE", "THRESHOLD_ALERT"}
RequestStatus   == {"PENDING_MANAGER", "PENDING_ACCOUNTING", "APPROVED",
                    "REJECTED", "CANCELLED"}
\* the (card type, amount) pairs the calls are made with
Denominations   == {<<"ASIA", 5000>>, <<"ASIA", 10000>>, <<"ATHIR", 5000>>}
NoRow           == "NOROW"      \* status of an id that has no committed row

VARIABLES
    cards,        \* card table: id -> [card_type, amount, status]
    cardLog,      \* cardinventorylog table, in commit order
    nextCardId,   \* the card id sequence
    txn,          \* SpecTxn: the open transaction of each session
    holdCount,    \* ghost: cards handed out by take_first_available since
                  \*        the card's last restore_card
    race,         \* ghost: two racing take_first_available calls and how
                  \*        each ended
    requests,     \* rechargerequest table, index = id
    history,      \* requeststatushistory table, in commit order
    inactive,     \* users deactivated (is_active False, telegram_id None)
    flow,         \* Spec: the handler invocation each worker is running
    delivered,    \* ghost: <<card, user>> for every card shown to a user
    runs,         \* Spec: handler invocations begun
    faults,       \* Spec: calls and deliveries that failed
    reports,      \* monthlyreport table, in commit order
    reportTxn,    \* SpecReport: the open record_monthly_report transaction
                  \*             of each session
    reqTxn        \* SpecReqTxn: the open request-service transaction of
                  \*             each session

ledgerVars == <<cards, cardLog, nextCardId>>
coreVars   == <<reports, reportTxn, reqTxn>>
flowVars   == <<requests, history, inactive, flow, delivered, runs,
                faults, coreVars>>
vars       == <<cards, cardLog, nextCardId, txn, holdCount, race,
                requests, history, inactive, flow, delivered, runs, faults,
                reports, reportTxn, reqTxn>>

\* ------------------------------------------------------------- card ledger
\* Card.image_file_id and Card.serial_number are nullable (models.py:115-117)
NoImage  == "NOIMAGE"
NoSerial == "NOSERIAL"
\* the file id of a card photo
PhotoFileId == "file_id"

NoCard == [card_type |-> "ASIA", amount |-> 0, status |-> NoRow,
           image |-> NoImage, serial |-> NoSerial]

CardExists(c) == c \in CardIds /\ cards[c].status # NoRow

IdleTxn == [op |-> "idle", stage |-> "none", card |-> None, locks |-> {},
            card_type |-> "ASIA", amount |-> 0, actor |-> None,
            image |-> NoImage, serial |-> NoSerial]

\* rows locked FOR UPDATE by the open transactions of the other sessions
LockedByOthers(s) == UNION {txn[t].locks : t \in Sessions \ {s}}

\* broken variant: the SELECT does not filter on the amount
MatchingAvailable_AnyAmount(card_type, amount) ==
    {c \in CardIds : /\ cards[c].status = "AVAILABLE"
                     /\ cards[c].card_type = card_type}

\* cards.py:96-103  WHERE card_type, amount, status = AVAILABLE
MatchingAvailable(card_type, amount) ==
    {c \in CardIds : /\ cards[c].status = "AVAILABLE"
                     /\ cards[c].card_type = card_type
                     /\ cards[c].amount = amount}

\* broken variant: the SELECT takes no row lock and sees the locked rows too
SkipLocked_NoLock(rows, locked) == rows

\* broken variant: the SELECT gives up when it meets a locked row
SkipLocked_FailOnLock(rows, locked) ==
    IF rows \cap locked # {} THEN {} ELSE rows

\* cards.py:104  .with_for_update(skip_locked=True): rows locked by another
\* transaction are left out of the result
SkipLocked(rows, locked) == rows \ locked

Min(S) == CHOOSE x \in S : \A y \in S : x <= y

\* broken variant: the SELECT orders by id descending
FirstRow_Newest(rows) ==
    IF rows = {} THEN None ELSE CHOOSE x \in rows : \A y \in rows : y <= x

\* cards.py:103-108  ORDER BY id, .first(); None when there is no row
FirstRow(rows) == IF rows = {} THEN None ELSE Min(rows)

\* broken variant: take_first_available forgets to mark the card RESERVED
NewStatus_TakeKeepsAvailable(op) ==
    CASE op = "add_card"             -> "AVAILABLE"
      [] op = "take_first_available" -> "AVAILABLE"
      [] op = "reserve_card"         -> "RESERVED"
      [] op = "mark_sent"            -> "SENT"
      [] op = "restore_card"         -> "AVAILABLE"

\* broken variant: restore_card leaves the card RESERVED
NewStatus_RestoreKeepsReserved(op) ==
    CASE op = "add_card"             -> "AVAILABLE"
      [] op = "take_first_available" -> "RESERVED"
      [] op = "reserve_card"         -> "RESERVED"
      [] op = "mark_sent"            -> "SENT"
      [] op = "restore_card"         -> "RESERVED"

\* the status each mutating operation writes, and the log action it appends
\* (cards.py:41-48 with models.py:112-114, cards.py:110, 141, 160, 179)
NewStatus(op) ==
    CASE op = "add_card"             -> "AVAILABLE"
      [] op = "take_first_available" -> "RESERVED"
      [] op = "reserve_card"         -> "RESERVED"
      [] op = "mark_sent"            -> "SENT"
      [] op = "restore_card"         -> "AVAILABLE"

LogAction(op) ==
    CASE op = "add_card"             -> "ADD"
      [] op = "take_first_available" -> "RESERVE"
      [] op = "reserve_card"         -> "RESERVE"
      [] op = "mark_sent"            -> "SEND"
      [] op = "restore_card"         -> "RESTORE"

\* cards.py:193-207  CardService._log
LogRow(card_id, action, actor_id) ==
    [card_id |-> card_id, action |-> action, actor_id |-> actor_id]

\* what a commit of a ledger transaction persists: the flushed row and the
\* log row added to the same session
CommittedCards(c, op, card_type, amount, image, serial) ==
    [cards EXCEPT ![c] = [card_type |-> IF op = "add_card" THEN card_type
                                        ELSE cards[c].card_type,
                          amount    |-> IF op = "add_card" THEN amount
                                        ELSE cards[c].amount,
                          status    |-> NewStatus(op),
                          image     |-> IF op = "add_card" THEN image
                                        ELSE cards[c].image,
                          serial    |-> IF op = "add_card" THEN serial
                                        ELSE cards[c].serial]]

\* broken variant: the log row is written in a session of its own that is lost
CommittedLog_Dropped(c, op, actor_id) == cardLog

CommittedLog(c, op, actor_id) ==
    Append(cardLog, LogRow(c, LogAction(op), actor_id))

HoldAfter(c, op) ==
    CASE op = "take_first_available" -> [holdCount EXCEPT ![c] = @ + 1]
      [] op = "restore_card"         -> [holdCount EXCEPT ![c] = 0]
      [] OTHER                       -> holdCount


\* ------------------------------------------------ SpecTxn: transactions
Running(s) == txn[s].op # "idle"

\* ghost: the last pair of take_first_available calls that raced for a single
\* matching AVAILABLE card, with the result each caller got
NoRace == [first |-> "none", second |-> "none", card |-> None,
           result1 |-> "none", card1 |-> None,
           result2 |-> "none", card2 |-> None]

\* a take that begins while another session's take on the same (type, amount)
\* is open, with exactly one matching AVAILABLE card in the table
Racing(s, card_type, amount) ==
    /\ \E t \in Sessions \ {s} : /\ txn[t].op = "take_first_available"
                                 /\ txn[t].card_type = card_type
                                 /\ txn[t].amount = amount
    /\ Cardinality(MatchingAvailable(card_type, amount)) = 1

RaceAtBegin(s, card_type, amount, result, card) ==
    [first   |-> CHOOSE t \in Sessions \ {s} :
                     /\ txn[t].op = "take_first_available"
                     /\ txn[t].card_type = card_type
                     /\ txn[t].amount = amount,
     second  |-> s,
     card    |-> CHOOSE c \in MatchingAvailable(card_type, amount) : TRUE,
     result1 |-> "running", card1 |-> None,
     result2 |-> result,    card2 |-> card]

\* a session that begins a new call leaves the race it took part in
RaceForget(s) == IF s \in {race.first, race.second} THEN NoRace ELSE race

\* the result a racing caller gets when its call ends
RaceEnd(s, result, card) ==
    IF s = race.first THEN [race EXCEPT !.result1 = result, !.card1 = card]
    ELSE IF s = race.second THEN [race EXCEPT !.result2 = result, !.card2 = card]
    ELSE race

\* a session begins a call when it has none open; the log bound counts the
\* rows the open transactions may still write
BeginCall(s) ==
    /\ ~Running(s)
    /\ Len(cardLog) + Cardinality({t \in Sessions : Running(t)}) < MaxLog

OpenTxn(op, card, locks, card_type, amount, actor_id) ==
    [op |-> op, stage |-> "selected", card |-> card, locks |-> locks,
     card_type |-> card_type, amount |-> amount, actor |-> actor_id,
     image |-> NoImage, serial |-> NoSerial]

\* cards.py:96-106  the rows the SELECT of a call made in session s returns
SelectedRows(s, card_type, amount) ==
    SkipLocked(MatchingAvailable(card_type, amount), LockedByOthers(s))

\* cards.py:95-109  take_first_available: open the session, SELECT ... FOR
\* UPDATE SKIP LOCKED; the result is fully fetched, so every returned row is
\* locked; raise NoResultFound when no row is returned
take_first_available_begin(s, card_type, amount, actor_id) ==
    /\ BeginCall(s)
    /\ LET rows == SelectedRows(s, card_type, amount)
           card == FirstRow(rows)
       IN  /\ txn' = IF card = None THEN txn
                     ELSE [txn EXCEPT ![s] =
                              OpenTxn("take_first_available", card, rows,
                                      card_type, amount, actor_id)]
           /\ race' = IF Racing(s, card_type, amount)
                      THEN RaceAtBegin(s, card_type, amount,
                               IF card = None THEN "NoResultFound"
                               ELSE "running", None)
                      ELSE RaceForget(s)
    /\ UNCHANGED <<ledgerVars, holdCount>>

\* broken variant: reserve_card does not look at the card's status
RaisesNoResultFound_ReserveUnchecked(op, card_id) == ~CardExists(card_id)

\* broken variant: mark_sent does not check that the row exists
RaisesNoResultFound_SendUnchecked(op, card_id) ==
    CASE op = "reserve_card" ->
            ~CardExists(card_id) \/ cards[card_id].status # "AVAILABLE"
      [] op = "mark_sent"    -> FALSE
      [] op = "restore_card" -> ~CardExists(card_id)

\* the condition under which each operation that loads one card by id
\* raises NoResultFound  (cards.py:139, 158, 177)
RaisesNoResultFound(op, card_id) ==
    CASE op = "reserve_card" ->
            ~CardExists(card_id) \/ cards[card_id].status # "AVAILABLE"
      [] op = "mark_sent"    -> ~CardExists(card_id)
      [] op = "restore_card" -> ~CardExists(card_id)

\* cards.py:136-140, 155-159, 174-178  session.get(Card, id,
\* with_for_update=True): waits while another transaction holds the row
get_for_update_begin(s, op, card_id, actor_id) ==
    /\ BeginCall(s)
    /\ card_id \notin LockedByOthers(s)
    /\ txn' = IF RaisesNoResultFound(op, card_id) THEN txn
              ELSE [txn EXCEPT ![s] =
                       OpenTxn(op, card_id, {card_id},
                               cards[card_id].card_type,
                               cards[card_id].amount, actor_id)]
    /\ race' = RaceForget(s)
    /\ UNCHANGED <<ledgerVars, holdCount>>

\* cards.py:40-49  add_card: a new Card is added to the session
add_card_begin(s, card_type, amount, actor_id) ==
    /\ BeginCall(s)
    /\ nextCardId <= MaxCards
    /\ txn' = [txn EXCEPT ![s] =
                  [OpenTxn("add_card", None, {}, card_type, amount, actor_id)
                      EXCEPT !.image = PhotoFileId]]
    /\ race' = RaceForget(s)
    /\ UNCHANGED <<ledgerVars, holdCount>>

\* cards.py:50, 110-111, 141-142, 160-161, 179-180  the status assignment and
\* session.flush(): the write is sent inside the open transaction; an INSERT
\* draws the new id from the sequence
TxnFlush(s) ==
    /\ txn[s].stage = "selected"
    /\ IF txn[s].op = "add_card"
       THEN /\ nextCardId <= MaxCards
            /\ txn' = [txn EXCEPT ![s].stage = "flushed",
                                  ![s].card = nextCardId]
            /\ nextCardId' = nextCardId + 1
       ELSE /\ txn' = [txn EXCEPT ![s].stage = "flushed"]
            /\ UNCHANGED nextCardId
    /\ UNCHANGED <<cards, cardLog, holdCount, race>>

\* cards.py:51, 112, 143, 162, 181  self._log(...): the log row is added to
\* the same session
TxnLog(s) ==
    /\ txn[s].stage = "flushed"
    /\ txn' = [txn EXCEPT ![s].stage = "logged"]
    /\ UNCHANGED <<ledgerVars, holdCount, race>>

\* cards.py:52, 113, 144, 163, 182  session.commit(): the card row and the
\* log row become visible together, the row locks are released
TxnCommit(s) ==
    /\ txn[s].stage = "logged"
    /\ cards' = CommittedCards(txn[s].card, txn[s].op, txn[s].card_type,
                               txn[s].amount, txn[s].image, txn[s].serial)
    /\ cardLog' = CommittedLog(txn[s].card, txn[s].op, txn[s].actor)
    /\ holdCount' = HoldAfter(txn[s].card, txn[s].op)
    /\ race' = RaceEnd(s, "ok", txn[s].card)
    /\ txn' = [txn EXCEPT ![s] = IdleTxn]
    /\ UNCHANGED nextCardId

\* session.py:23 / cards.py:95  "async with session": an exception, a lost
\* connection or a crash before commit rolls the transaction back
TxnAbort(s) ==
    /\ Running(s)
    /\ txn' = [txn EXCEPT ![s] = IdleTxn]
    /\ race' = RaceEnd(s, "aborted", None)
    /\ UNCHANGED <<ledgerVars, holdCount>>

TxnActors == {4}

\* ------------------------------------------------------- user directory
\* services/users.py: the users the handlers look up (models.py:66-105)
Users == {1, 2, 3, 4}

\* the whole user table: Users, and a second team, the USER 5 whose manager
\* 6 is a RESPONSIBLE without can_approve_directly; the second team acts in
\* SpecAuth only
Directory == Users \cup {5, 6}

Role == [u \in Directory |->
            CASE u \in {1, 2, 5} -> "USER"
              [] u \in {3, 6}    -> "RESPONSIBLE"
              [] OTHER           -> "ADMIN"]

\* User.manager_id as entered when the user was created
AssignedManager == [u \in Directory |->
                       CASE u = 1 -> 3
                         [] u = 5 -> 6
                         [] OTHER -> None]

\* User.line_type
LineType == [u \in Directory |->
                CASE u \in {1, 4, 5} -> "ASIA"
                  [] u = 3           -> "ATHIR"
                  [] OTHER           -> "NONE"]

\* User.can_approve_directly
CanApproveDirectly == [u \in Directory |-> u = 3]

\* the users an admin deactivates in the model
Deactivatable == {1}

\* users.py:167-179  deactivate_user clears the members' manager_id
ManagerId(u) ==
    IF AssignedManager[u] \in inactive THEN None ELSE AssignedManager[u]

\* users.py:178-179  a deactivated user has no telegram_id
HasTelegram(u) == u \notin inactive

\* handlers/utils.py:22-27 with users.py:29-38  get_current_user: the active
\* user holding the telegram id of the event
CurrentUsers == {u \in Directory : u \notin inactive}

InitLedger ==
    /\ cards = [c \in CardIds |-> NoCard]
    /\ cardLog = <<>>
    /\ nextCardId = 1
    /\ holdCount = [c \in CardIds |-> 0]

InitTxn ==
    /\ txn = [s \in Sessions |-> IdleTxn]
    /\ race = NoRace

NextTxn ==
    \/ \E s \in Sessions, k \in Denominations, u \in TxnActors :
           add_card_begin(s, k[1], k[2], u) /\ UNCHANGED flowVars
    \/ \E s \in Sessions, k \in Denominations, u \in TxnActors :
           take_first_available_begin(s, k[1], k[2], u) /\ UNCHANGED flowVars
    \/ \E s \in Sessions, c \in CardIds, u \in TxnActors,
          op \in {"reserve_card", "mark_sent", "restore_card"} :
           get_for_update_begin(s, op, c, u) /\ UNCHANGED flowVars
    \/ \E s \in Sessions : TxnFlush(s) /\ UNCHANGED flowVars
    \/ \E s \in Sessions : TxnLog(s) /\ UNCHANGED flowVars
    \/ \E s \in Sessions : TxnCommit(s) /\ UNCHANGED flowVars
    \/ \E s \in Sessions : TxnAbort(s) /\ UNCHANGED flowVars



\* ------------------------------------------------------ request workflow
NoStatus == "NULL"      \* from_status of the initial history row

\* requests.py:42-49 with models.py:148-169
NewRequest(requester_id, responsible_id, amount, status, card_type) ==
    [requester_id |-> requester_id, responsible_id |-> responsible_id,
     amount |-> amount, status |-> status, card_type |-> card_type,
     final_card_id |-> None, approver_id |-> None]

\* requests.py:266-283  RequestService._log
HistoryRow(request_id, actor_id, from_status, to_status, note) ==
    [request_id |-> request_id, actor_id |-> actor_id,
     from_status |-> from_status, to_status |-> to_status, note |-> note]

RequestIds == 1..Len(requests)

\* requests.py:30-70  create_request: the request row and its first history
\* row, in one transaction; ck_recharge_amount_positive rejects amount <= 0
create_request(requester_id, responsible_id, amount, status, card_type) ==
    /\ amount > 0
    /\ requests' = Append(requests,
           NewRequest(requester_id, responsible_id, amount, status, card_type))
    /\ history' = Append(history,
           HistoryRow(Len(requests) + 1, requester_id, NoStatus, status, ""))

\* requests.py:86-97  the row set_status adds: from the status read under the
\* row lock to the new status
StatusHistoryRow(request_id, actor_id, new_status, note) ==
    HistoryRow(request_id, actor_id, requests[request_id].status,
               new_status, note)

\* broken variant: set_status refuses a change that is not a legal transition
set_status_Guarded(request_id, actor_id, new_status, note) ==
    /\ \/ requests[request_id].status = "PENDING_MANAGER"
          /\ new_status \in {"PENDING_ACCOUNTING", "APPROVED", "REJECTED"}
       \/ requests[request_id].status = "PENDING_ACCOUNTING"
          /\ new_status \in {"APPROVED", "REJECTED"}
    /\ requests' = [requests EXCEPT ![request_id].status = new_status]
    /\ history' = Append(history,
           StatusHistoryRow(request_id, actor_id, new_status, note))

\* requests.py:72-108  set_status
set_status(request_id, actor_id, new_status, note) ==
    /\ requests' = [requests EXCEPT ![request_id].status = new_status]
    /\ history' = Append(history,
           StatusHistoryRow(request_id, actor_id, new_status, note))

\* broken variant: attach_card records the request as already approved
AttachHistoryRow_Approved(request_id, actor_id) ==
    HistoryRow(request_id, actor_id, requests[request_id].status,
               "APPROVED", "Card assigned")

\* requests.py:188-195  the row attach_card adds: status unchanged
AttachHistoryRow(request_id, actor_id) ==
    HistoryRow(request_id, actor_id, requests[request_id].status,
               requests[request_id].status, "Card assigned")

\* broken variant: attach_card sets final_card_id and writes no history row
attach_card_NoHistory(request_id, card_id, actor_id) ==
    /\ requests' = [requests EXCEPT ![request_id].final_card_id = card_id]
    /\ UNCHANGED history

\* requests.py:173-204  attach_card
attach_card(request_id, card_id, actor_id) ==
    /\ requests' = [requests EXCEPT ![request_id].final_card_id = card_id]
    /\ history' = Append(history, AttachHistoryRow(request_id, actor_id))

\* broken variant: naming the approver also approves the request
set_approver_Approves(request_id, approver_id) ==
    /\ requests' = [requests EXCEPT ![request_id].approver_id = approver_id,
                                    ![request_id].status = "APPROVED"]
    /\ history' = Append(history,
           StatusHistoryRow(request_id, approver_id, "APPROVED", ""))

\* requests.py:206-226  set_approver
set_approver(request_id, approver_id) ==
    /\ requests' = [requests EXCEPT ![request_id].approver_id = approver_id]
    /\ UNCHANGED history

\* ------------------------------------ ledger calls as single transactions
\* a ledger call that runs to its commit with no other transaction open
LedgerCommit(c, op, actor_id) ==
    /\ cards' = CommittedCards(c, op, cards[c].card_type, cards[c].amount,
                               cards[c].image, cards[c].serial)
    /\ cardLog' = CommittedLog(c, op, actor_id)
    /\ holdCount' = HoldAfter(c, op)
    /\ UNCHANGED nextCardId

\* cards.py:95-108  the card take_first_available selects, None when the
\* SELECT returns no row
TakeCandidate(card_type, amount) ==
    FirstRow(SkipLocked(MatchingAvailable(card_type, amount),
                        UNION {txn[t].locks : t \in Sessions}))

\* cards.py:124-134  count_available
count_available(card_type, amount) ==
    Cardinality(MatchingAvailable(card_type, amount))


\* --------------------------------------------------------- handler flows
Workers == {"w1", "w2"}     \* handler invocations in progress at once

IdleFlow == [kind |-> "idle", pc |-> "idle", actor |-> None,
             action |-> "none", request |-> None, card |-> None,
             target |-> None, card_type |-> "NONE", amount |-> 0,
             chat |-> FALSE]

Direct(kind) == kind \in {"admin_send", "responsible_send"}

\* a handler starts on the first free worker
FreeWorker(p) ==
    /\ flow[p].kind = "idle"
    /\ p = "w2" => flow["w1"].kind # "idle"

\* direct sends are run one at a time; a decision on a request runs beside
\* another decision or beside a direct send
OneDirectSend(kind) ==
    Direct(kind) => \A q \in Workers : ~Direct(flow[q].kind)

BeginRun(p) ==
    /\ FreeWorker(p)
    /\ runs < MaxRuns
    /\ runs' = runs + 1
    /\ UNCHANGED faults

\* a call or a delivery fails
Fault ==
    /\ faults < MaxFaults
    /\ faults' = faults + 1

EndFlow(p) == flow' = [flow EXCEPT ![p] = IdleFlow]

Goto(p, pc) == flow' = [flow EXCEPT ![p].pc = pc]

UnchangedLedger == UNCHANGED <<cards, cardLog, nextCardId, holdCount>>
UnchangedRequests == UNCHANGED <<requests, history>>

\* handlers/admin.py:785-830  the admin adds a card; add_card (cards.py:28-61)
\* as one transaction.  The inventory is stocked before the card-handling
\* handlers run
admin_add_card(card_type, amount, actor_id) ==
    /\ nextCardId <= MaxCards
    /\ runs = 0
    /\ Role[actor_id] = "ADMIN"
    /\ cards' = CommittedCards(nextCardId, "add_card", card_type, amount,
                               PhotoFileId, NoSerial)
    /\ cardLog' = CommittedLog(nextCardId, "add_card", actor_id)
    /\ holdCount' = HoldAfter(nextCardId, "add_card")
    /\ nextCardId' = nextCardId + 1
    /\ UNCHANGED <<requests, history, inactive, flow, delivered, runs,
                   faults, txn, race, coreVars>>

\* services/users.py:167-188  deactivate_user
deactivate_user(u) ==
    /\ u \in Deactivatable \ inactive
    /\ inactive' = inactive \cup {u}
    /\ UnchangedLedger
    /\ UNCHANGED <<requests, history, flow, delivered, runs, faults, txn, race, coreVars>>

\* broken variant: every new request starts at the manager stage
Routing_AllToManager(u) ==
    CASE Role[u] = "USER"        -> <<ManagerId(u), "PENDING_MANAGER">>
      [] Role[u] = "RESPONSIBLE" -> <<u, "PENDING_MANAGER">>
      [] OTHER                   -> <<None, "PENDING_MANAGER">>

\* handlers/requests.py:167-183  role-based routing of a new request:
\* <<responsible_id, initial status>>
Routing(u) ==
    CASE Role[u] = "USER"        -> <<ManagerId(u), "PENDING_MANAGER">>
      [] Role[u] = "RESPONSIBLE" -> <<u, "PENDING_ACCOUNTING">>
      [] OTHER                   -> <<None, "PENDING_ACCOUNTING">>

\* handlers/requests.py:141-192  _process_request: a user submits a request;
\* an admin has chosen the card type, the others get their line type.  With
\* a non-positive amount, or for a USER without a manager, the handler
\* answers and returns before create_request: no step
process_request(u, amount, chosen_type) ==
    /\ u \in CurrentUsers
    /\ amount > 0
    /\ ~(Role[u] = "USER" /\ ManagerId(u) = None)
    /\ Len(requests) < MaxRequests
    /\ create_request(u, Routing(u)[1], amount, Routing(u)[2],
                      IF Role[u] = "ADMIN" THEN chosen_type ELSE LineType[u])
    /\ UnchangedLedger
    /\ UNCHANGED <<inactive, flow, delivered, runs, faults, txn, race, coreVars>>

\* broken variant: the request handlers approve before they attach the card
NextPc_ApproveFirst(kind, pc) ==
    IF Direct(kind)
    THEN CASE pc = "take"         -> "deliver"
           [] pc = "deliver"      -> "create"
           [] pc = "create"       -> "attach"
           [] pc = "attach"       -> "set_status"
           [] pc = "set_status"   -> "set_approver"
           [] pc = "set_approver" -> "mark_sent"
    ELSE CASE pc = "take"         -> "set_status"
           [] pc = "set_status"   -> "attach"
           [] pc = "attach"       -> "set_approver"
           [] pc = "set_approver" -> "deliver"
           [] pc = "deliver"      -> "mark_sent"

\* the order of the calls after the reservation
\*   handlers/requests.py:362-390, 513-533   attach_card, set_approver,
\*       set_status, send_card_to_chat, mark_sent
\*   handlers/admin.py:501-544, handlers/responsible.py:375-416
\*       send_card_to_chat, create_request, attach_card, set_status,
\*       set_approver, mark_sent
NextPc(kind, pc) ==
    IF Direct(kind)
    THEN CASE pc = "take"         -> "deliver"
           [] pc = "deliver"      -> "create"
           [] pc = "create"       -> "attach"
           [] pc = "attach"       -> "set_status"
           [] pc = "set_status"   -> "set_approver"
           [] pc = "set_approver" -> "mark_sent"
    ELSE CASE pc = "take"         -> "attach"
           [] pc = "attach"       -> "set_approver"
           [] pc = "set_approver" -> "set_status"
           [] pc = "set_status"   -> "deliver"
           [] pc = "deliver"      -> "mark_sent"

\* handlers/requests.py:436-442  _accounting_options: the card types that
\* have an available card of the amount, in enum order
accounting_options(amount) ==
    SelectSeq(CardTypeOrder, LAMBDA t : count_available(t, amount) > 0)

\* handlers/requests.py:351-359, 503-511, admin.py:480-495,
\* responsible.py:355-369  the reservation that opens a handler's writes;
\* on NoResultFound the handler answers and returns: no step
Reserve(p, f) ==
    LET card == TakeCandidate(f.card_type, f.amount)
    IN  /\ card # None
        /\ OneDirectSend(f.kind)
        /\ BeginRun(p)
        /\ LedgerCommit(card, "take_first_available", f.actor)
        /\ flow' = [flow EXCEPT ![p] =
                       [f EXCEPT !.card = card,
                                 !.pc = NextPc(f.kind, "take")]]
        /\ UnchangedRequests
        /\ UNCHANGED <<inactive, delivered, txn, race, coreVars>>

\* a handler that decides without a card goes on to its set_status
Decide(p, f) ==
    /\ BeginRun(p)
    /\ flow' = [flow EXCEPT ![p] = [f EXCEPT !.pc = "decide"]]
    /\ UnchangedLedger /\ UnchangedRequests
    /\ UNCHANGED <<inactive, delivered, txn, race, coreVars>>

\* handlers/requests.py:296-359  handle_manager_decision up to its first
\* write: the request is read without a lock and checked; "send" reserves
\* a card of the first type _accounting_options lists.  When a check fails
\* the handler answers and returns: no step
handle_manager_decision(p, m, action, r) ==
    /\ FreeWorker(p)
    /\ m \in CurrentUsers
    /\ r \in RequestIds
    /\ action \in {"approve", "send", "reject"}
    /\ LET f == [kind |-> "manager", pc |-> "begin", actor |-> m,
                 action |-> action, request |-> r, card |-> None,
                 target |-> requests[r].requester_id,
                 card_type |-> IF accounting_options(requests[r].amount) = <<>>
                               THEN "NONE"
                               ELSE accounting_options(requests[r].amount)[1],
                 amount |-> requests[r].amount,
                 chat |-> HasTelegram(requests[r].requester_id)]
       IN  /\ requests[r].responsible_id = m
           /\ requests[r].status = "PENDING_MANAGER"
           /\ action = "send" => CanApproveDirectly[m]
           /\ action = "send" => f.card_type # "NONE"
           /\ IF action = "send" THEN Reserve(p, f) ELSE Decide(p, f)

\* broken variant: the accounting decision does not check the user's role
handle_accounting_decision_AnyRole(p, a, action, r) ==
    /\ FreeWorker(p)
    /\ a \in CurrentUsers
    /\ r \in RequestIds
    /\ action \in {"approve", "reject"}
    /\ LET f == [kind |-> "accounting", pc |-> "begin", actor |-> a,
                 action |-> action, request |-> r, card |-> None,
                 target |-> requests[r].requester_id,
                 card_type |-> LineType[requests[r].requester_id],
                 amount |-> requests[r].amount,
                 chat |-> FALSE]
       IN  /\ requests[r].status = "PENDING_ACCOUNTING"
           /\ action = "approve" => f.card_type # "NONE"
           /\ IF action = "approve" THEN Reserve(p, f) ELSE Decide(p, f)

\* handlers/requests.py:445-511  handle_accounting_decision up to its first
\* write
handle_accounting_decision(p, a, action, r) ==
    /\ FreeWorker(p)
    /\ a \in CurrentUsers
    /\ r \in RequestIds
    /\ action \in {"approve", "reject"}
    /\ LET f == [kind |-> "accounting", pc |-> "begin", actor |-> a,
                 action |-> action, request |-> r, card |-> None,
                 target |-> requests[r].requester_id,
                 card_type |-> LineType[requests[r].requester_id],
                 amount |-> requests[r].amount,
                 chat |-> FALSE]
       IN  /\ Role[a] = "ADMIN"
           /\ requests[r].status = "PENDING_ACCOUNTING"
           /\ action = "approve" => f.card_type # "NONE"
           /\ IF action = "approve" THEN Reserve(p, f) ELSE Decide(p, f)

\* handlers/admin.py:428-495  admin_send_card_amount up to the reservation
admin_send_card_amount(p, a, target, card_type, amount) ==
    /\ FreeWorker(p)
    /\ a \in CurrentUsers
    /\ Role[a] = "ADMIN"
    /\ HasTelegram(target)
    /\ Reserve(p, [kind |-> "admin_send", pc |-> "begin", actor |-> a,
                   action |-> "send", request |-> None, card |-> None,
                   target |-> target, card_type |-> card_type,
                   amount |-> amount, chat |-> TRUE])

\* handlers/responsible.py:281-369  responsible_send_card_amount of a
\* responsible who may send directly, up to the reservation; the target is
\* a member with a telegram account
responsible_send_card_amount(p, m, target, card_type, amount) ==
    /\ FreeWorker(p)
    /\ m \in CurrentUsers
    /\ Role[m] = "RESPONSIBLE"
    /\ CanApproveDirectly[m]
    /\ ManagerId(target) = m
    /\ HasTelegram(target)
    /\ Reserve(p, [kind |-> "responsible_send", pc |-> "begin",
                   actor |-> m, action |-> "send", request |-> None,
                   card |-> None, target |-> target,
                   card_type |-> card_type, amount |-> amount,
                   chat |-> TRUE])

Advance(p) == Goto(p, NextPc(flow[p].kind, flow[p].pc))

\* handlers/requests.py:322-327, 420-425, 464-469  approve-forward or reject
DecidedStatus(kind, action) ==
    IF kind = "manager" /\ action = "approve" THEN "PENDING_ACCOUNTING"
    ELSE "REJECTED"

flow_decide(p) ==
    /\ flow[p].pc = "decide"
    /\ set_status(flow[p].request, flow[p].actor,
                  DecidedStatus(flow[p].kind, flow[p].action), "")
    /\ EndFlow(p)
    /\ UnchangedLedger
    /\ UNCHANGED <<inactive, delivered, runs, faults, txn, race, coreVars>>

\* admin.py:514-521, responsible.py:389-396  the request of a direct send
flow_create_request(p) ==
    /\ flow[p].pc = "create"
    /\ create_request(flow[p].target,
                      IF flow[p].kind = "admin_send" THEN None
                      ELSE flow[p].actor,
                      cards[flow[p].card].amount, "PENDING_MANAGER",
                      cards[flow[p].card].card_type)
    /\ flow' = [flow EXCEPT ![p].request = Len(requests) + 1,
                   ![p].pc = NextPc(flow[p].kind, "create")]
    /\ UnchangedLedger
    /\ UNCHANGED <<inactive, delivered, runs, faults, txn, race, coreVars>>

flow_attach_card(p) ==
    /\ flow[p].pc = "attach"
    /\ attach_card(flow[p].request, flow[p].card, flow[p].actor)
    /\ Advance(p)
    /\ UnchangedLedger
    /\ UNCHANGED <<inactive, delivered, runs, faults, txn, race, coreVars>>

flow_set_approver(p) ==
    /\ flow[p].pc = "set_approver"
    /\ set_approver(flow[p].request, flow[p].actor)
    /\ Advance(p)
    /\ UnchangedLedger
    /\ UNCHANGED <<inactive, delivered, runs, faults, txn, race, coreVars>>

\* requests.py:368-372, 519-523, admin.py:527-532, responsible.py:402-407
ApprovalNote(kind) ==
    CASE kind = "admin_send"       -> "Direct admin send"
      [] kind = "responsible_send" -> "Direct responsible send"
      [] OTHER                     -> ""

flow_set_status(p) ==
    /\ flow[p].pc = "set_status"
    /\ set_status(flow[p].request, flow[p].actor, "APPROVED",
                  ApprovalNote(flow[p].kind))
    /\ Advance(p)
    /\ UnchangedLedger
    /\ UNCHANGED <<inactive, delivered, runs, faults, txn, race, coreVars>>

\* handlers/requests.py:567-601  send_card_to_chat: True when the card
\* reached the chat, False when every attempt failed; a Telegram error other
\* than TelegramBadRequest on the first send_photo leaves the function
SendOutcomes == {"sent", "failed", "raised"}

\* whether the handler has a chat to send to
\*   requests.py:375  the requester read when the handler began
\*   requests.py:525-530  the requester read again before the delivery
\*   admin.py:464, responsible.py:290  checked before the reservation
HasChat(p) ==
    CASE flow[p].kind = "manager"    -> flow[p].chat
      [] flow[p].kind = "accounting" -> HasTelegram(flow[p].target)
      [] OTHER                       -> TRUE

\* what the handler does with the outcome of the delivery
\*   requests.py:375-390  no chat or False: return
\*   requests.py:530-533  the result is not looked at
\*   admin.py:508-512, responsible.py:382-386  False: restore_card, return
AfterDelivery(p, out) ==
    CASE out = "raised"               -> "end"
      [] flow[p].kind = "accounting"  -> "mark_sent"
      [] out = "nochat"               -> "end"
      [] out = "sent"                 -> NextPc(flow[p].kind, "deliver")
      [] Direct(flow[p].kind)         -> "restore"
      [] OTHER                        -> "end"

flow_deliver(p, out) ==
    /\ flow[p].pc = "deliver"
    /\ IF HasChat(p) THEN out \in SendOutcomes ELSE out = "nochat"
    /\ delivered' = IF out = "sent"
                    THEN delivered \cup {<<flow[p].card, flow[p].target>>}
                    ELSE delivered
    /\ IF AfterDelivery(p, out) = "end"
       THEN EndFlow(p)
       ELSE Goto(p, AfterDelivery(p, out))
    /\ IF out \in {"failed", "raised"} THEN Fault ELSE UNCHANGED faults
    /\ UnchangedLedger /\ UnchangedRequests
    /\ UNCHANGED <<inactive, runs, txn, race, coreVars>>

\* requests.py:390, 533, admin.py:544, responsible.py:416
flow_mark_sent(p) ==
    /\ flow[p].pc = "mark_sent"
    /\ LedgerCommit(flow[p].card, "mark_sent", flow[p].actor)
    /\ EndFlow(p)
    /\ UnchangedRequests
    /\ UNCHANGED <<inactive, delivered, runs, faults, txn, race, coreVars>>

\* admin.py:509, 536, responsible.py:383, 410  the compensation
flow_restore_card(p) ==
    /\ flow[p].pc = "restore"
    /\ LedgerCommit(flow[p].card, "restore_card", flow[p].actor)
    /\ EndFlow(p)
    /\ UnchangedRequests
    /\ UNCHANGED <<inactive, delivered, runs, faults, txn, race, coreVars>>

\* the calls of a direct send that sit in its try block
\* (admin.py:513-535, responsible.py:388-409)
InTryBlock(kind, pc) ==
    /\ Direct(kind)
    /\ pc \in {"create", "attach", "set_status", "set_approver"}

ServiceCallPcs == {"decide", "create", "attach", "set_approver",
                   "set_status", "mark_sent", "restore"}

\* a service call raises (the database is unreachable, the transaction is
\* rolled back): nothing is written; inside the try block of a direct send
\* the handler goes on to restore_card, elsewhere the exception ends it
flow_call_raises(p) ==
    /\ flow[p].pc \in ServiceCallPcs
    /\ IF InTryBlock(flow[p].kind, flow[p].pc)
       THEN Goto(p, "restore")
       ELSE EndFlow(p)
    /\ Fault
    /\ UnchangedLedger /\ UnchangedRequests
    /\ UNCHANGED <<inactive, delivered, runs, txn, race, coreVars>>

InitFlows ==
    /\ requests = <<>>
    /\ history = <<>>
    /\ inactive = {}
    /\ flow = [p \in Workers |-> IdleFlow]
    /\ delivered = {}
    /\ runs = 0
    /\ faults = 0

\* no request-service or report transaction is open
IdleReqTxn == [op |-> "idle", stage |-> "none", request |-> None,
               actor |-> None, new_status |-> "NULL",
               previous_status |-> "NULL", card |-> None, lock |-> None,
               amount |-> 0, responsible |-> None]

IdleReportTxn == [op |-> "idle", stage |-> "none", period |-> None,
                  total_amount |-> 0, report_path |-> "", found |-> None,
                  loaded_total |-> 0, loaded_path |-> ""]

InitCore ==
    /\ reports = <<>>
    /\ reportTxn = [s \in Sessions |-> IdleReportTxn]
    /\ reqTxn = [s \in Sessions |-> IdleReqTxn]

Init == InitLedger /\ InitTxn /\ InitFlows /\ InitCore

\* the users of each role (User.role)
Admins == {u \in Users : Role[u] = "ADMIN"}
Responsibles == {u \in Users : Role[u] = "RESPONSIBLE"}

\* the amounts users ask for
RequestAmounts == {5000}

\* the users a card is sent to directly
SendTargets == {1, 2}

Next ==
    \/ \E k \in Denominations, a \in Admins : admin_add_card(k[1], k[2], a)
    \/ \E u \in Deactivatable : deactivate_user(u)
    \/ \E u \in Users, a \in RequestAmounts, t \in CardType :
           process_request(u, a, t)
    \/ \E p \in Workers, m \in Responsibles, r \in RequestIds,
          action \in {"approve", "send", "reject"} :
           handle_manager_decision(p, m, action, r)
    \/ \E p \in Workers, a \in Admins, r \in RequestIds,
          action \in {"approve", "reject"} :
           handle_accounting_decision(p, a, action, r)
    \/ \E p \in Workers, a \in Admins, u \in SendTargets,
          k \in Denominations :
           admin_send_card_amount(p, a, u, k[1], k[2])
    \/ \E p \in Workers, m \in Responsibles, u \in SendTargets,
          k \in Denominations :
           responsible_send_card_amount(p, m, u, k[1], k[2])
    \/ \E p \in Workers : flow_decide(p)
    \/ \E p \in Workers : flow_create_request(p)
    \/ \E p \in Workers : flow_attach_card(p)
    \/ \E p \in Workers : flow_set_approver(p)
    \/ \E p \in Workers : flow_set_status(p)
    \/ \E p \in Workers, out \in SendOutcomes \cup {"nochat"} :
           flow_deliver(p, out)
    \/ \E p \in Workers : flow_mark_sent(p)
    \/ \E p \in Workers : flow_restore_card(p)
    \/ \E p \in Workers : flow_call_raises(p)

Spec == Init /\ [][Next]_vars

SpecTxn == Init /\ [][NextTxn]_vars

\* ------------------------------------- request service calls in any order
\* SpecReq: create_request, set_status, attach_card and set_approver called
\* in any order with any arguments, each call one committed transaction
\* (set_status and attach_card hold the request's row lock from their read
\* to their commit, so two calls on one request run one after the other)
ReqActors == {4}
ReqResponsibles == {None, 3}
ReqInitialStatus == {"PENDING_MANAGER", "PENDING_ACCOUNTING"}

UnchangedFlows == UNCHANGED <<inactive, flow, delivered, runs, faults,
                              txn, race, coreVars>>

HistoryRoom == Len(history) < MaxHistory

svc_create_request(requester_id, responsible_id, status) ==
    /\ Len(requests) < MaxRequests
    /\ HistoryRoom
    /\ create_request(requester_id, responsible_id, 5000, status,
                      LineType[requester_id])
    /\ UnchangedLedger /\ UnchangedFlows

svc_set_status(request_id, actor_id, new_status) ==
    /\ HistoryRoom
    /\ set_status(request_id, actor_id, new_status, "")
    /\ UnchangedLedger /\ UnchangedFlows

svc_attach_card(request_id, card_id, actor_id) ==
    /\ HistoryRoom
    /\ attach_card(request_id, card_id, actor_id)
    /\ UnchangedLedger /\ UnchangedFlows

svc_set_approver(request_id, approver_id) ==
    /\ set_approver(request_id, approver_id)
    /\ UnchangedLedger /\ UnchangedFlows

NextReq ==
    \/ \E m \in ReqResponsibles, st \in ReqInitialStatus :
           svc_create_request(1, m, st)
    \/ \E r \in RequestIds, a \in ReqActors, st \in RequestStatus :
           svc_set_status(r, a, st)
    \/ \E r \in RequestIds, c \in CardIds, a \in ReqActors :
           svc_attach_card(r, c, a)
    \/ \E r \in RequestIds, a \in ReqActors : svc_set_approver(r, a)

SpecReq == Init /\ [][NextReq]_vars

\* ------------------------------------------------------- ledger claims
\* the newest inventory-log row of a card, None when it has none
LastLogIndex(c) ==
    LET idx == {i \in 1..Len(cardLog) : cardLog[i].card_id = c}
    IN  IF idx = {} THEN None ELSE CHOOSE i \in idx : \A j \in idx : j <= i

ImpliedStatus(action) ==
    CASE action = "ADD"     -> "AVAILABLE"
      [] action = "RESTORE" -> "AVAILABLE"
      [] action = "RESERVE" -> "RESERVED"
      [] action = "SEND"    -> "SENT"
      [] OTHER              -> "ARCHIVED"

\* C2: no two take_first_available calls receive the same card: between a
\* card's reservation and its next restore_card at most one caller has been
\* handed that card.
C2_AtMostOneReservation == \A c \in CardIds : holdCount[c] <= 1

\* one caller holds a card while a concurrent take_first_available, about to
\* commit, holds another one
C2_Witness ==
    \E s \in Sessions, c \in CardIds :
        /\ holdCount[c] = 1
        /\ txn[s].op = "take_first_available"
        /\ txn[s].stage = "logged"
        /\ txn[s].card # c

\* C3: two take_first_available calls race for the same (type, amount) with
\* exactly one matching AVAILABLE card; when both have returned, exactly one
\* has succeeded with that card, now RESERVED, and the other has raised
\* NoResultFound.
C3_ExactlyOneWinner ==
    (/\ race # NoRace
     /\ race.result1 \in {"ok", "NoResultFound"}
     /\ race.result2 \in {"ok", "NoResultFound"})
    => /\ \/ /\ race.result1 = "ok"
             /\ race.card1 = race.card
             /\ race.result2 = "NoResultFound"
          \/ /\ race.result2 = "ok"
             /\ race.card2 = race.card
             /\ race.result1 = "NoResultFound"
       /\ cards[race.card].status = "RESERVED"

C3_Witness ==
    /\ race # NoRace
    /\ race.result1 = "ok"
    /\ race.result2 = "NoResultFound"

\* C9: the status change and its log row are committed together: in every
\* state, also after a rollback at any point of an operation, a card's status
\* is the one its newest log row implies, and an id without a row has no log.
C9_StatusMatchesNewestLog ==
    \A c \in CardIds :
        IF LastLogIndex(c) = None
        THEN cards[c].status = NoRow
        ELSE cards[c].status = ImpliedStatus(cardLog[LastLogIndex(c)].action)

\* a mark_sent between its flush and its log row: the committed card is
\* still RESERVED and its newest committed log row is still RESERVE
C9_Witness ==
    \E s \in Sessions :
        /\ txn[s].op = "mark_sent"
        /\ txn[s].stage = "flushed"
        /\ cards[txn[s].card].status = "RESERVED"

\* C10: mark_sent writes SENT and its SEND log row only for a card that is
\* RESERVED; for any other status it leaves the card and the log unchanged.
C10_MarkSentRequiresReserved ==
    [][(/\ Len(cardLog') = Len(cardLog) + 1
        /\ cardLog'[Len(cardLog')].action = "SEND")
       => cards[cardLog'[Len(cardLog')].card_id].status = "RESERVED"]_vars



\* ------------------------------------------------------------ flow claims
\* the users a card has been shown to
Recipients(c) == {u \in Users : <<c, u>> \in delivered}

\* C1: a card that has been delivered to a requester is never AVAILABLE
\* again and is never delivered to a second requester
C1_DeliveredToAtMostOne ==
    \A c \in CardIds :
        Recipients(c) # {} =>
            /\ cards[c].status # "AVAILABLE"
            /\ Cardinality(Recipients(c)) <= 1

\* C4: once attach_card has set a request's final_card_id, no step changes
\* it to another card
C4_FinalCardNeverOverwritten ==
    [][\A r \in RequestIds :
          requests[r].final_card_id # None =>
              requests'[r].final_card_id = requests[r].final_card_id]_vars

\* the history rows the decision handlers write through set_status
\* (handlers/requests.py:322-327, 368-372, 420-425, 464-469, 519-523)
IsDecisionRow(h) == h.from_status # NoStatus /\ h.note = ""

\* the status a decision handler requires before it decides
PendingStageOf(actor_id) ==
    IF Role[actor_id] = "ADMIN" THEN "PENDING_ACCOUNTING"
    ELSE "PENDING_MANAGER"

\* C5: of the decisions taken on a pending request only one takes effect:
\* every decision recorded in the history was taken on a request that was
\* still pending at the decider's stage when its status was written
C5_OnlyOneDecisionTakesEffect ==
    \A i \in 1..Len(history) :
        IsDecisionRow(history[i]) =>
            history[i].from_status = PendingStageOf(history[i].actor_id)

\* C6: a card is RESERVED only while the flow that reserved it is still
\* running; once the flow has ended the card is SENT or AVAILABLE
C6_NoReservationLeftBehind ==
    \A c \in CardIds :
        cards[c].status = "RESERVED" =>
            \E p \in Workers : flow[p].card = c

LegalTransitions ==
    {<<"PENDING_MANAGER", "PENDING_ACCOUNTING">>,
     <<"PENDING_MANAGER", "APPROVED">>,
     <<"PENDING_MANAGER", "REJECTED">>,
     <<"PENDING_ACCOUNTING", "APPROVED">>,
     <<"PENDING_ACCOUNTING", "REJECTED">>}

\* C7: every change of a request's status is one of the five legal
\* transitions; APPROVED and REJECTED are never left
C7_OnlyLegalTransitions ==
    [][\A r \in RequestIds :
          requests'[r].status # requests[r].status =>
              <<requests[r].status, requests'[r].status>>
                  \in LegalTransitions]_vars

\* the history rows of a request, as indexes in commit order
RowsOf(r) == {i \in 1..Len(history) : history[i].request_id = r}

Max(S) == CHOOSE x \in S : \A y \in S : y <= x

\* C8: the to_status of the last history row of every request equals the
\* request's current status
C8_LastRowIsCurrentStatus ==
    \A r \in RequestIds :
        /\ RowsOf(r) # {}
        /\ history[Max(RowsOf(r))].to_status = requests[r].status

\* C8 witness: a request that was created, had a card attached while it was
\* still pending and was then approved
C8_Witness ==
    \E r \in RequestIds :
        /\ requests[r].status = "APPROVED"
        /\ \E i \in RowsOf(r) :
              /\ history[i].note = "Card assigned"
              /\ history[i].to_status # "APPROVED"
        /\ Cardinality(RowsOf(r)) >= 3


\* ---------------------------------------------------- ledger claims, part 2
\* C11: SENT is terminal: no ledger operation changes the status of a card
\* that is SENT (restore_card and the others leave a SENT card alone).
C11_SentIsTerminal ==
    [][\A c \in CardIds :
          cards[c].status = "SENT" => cards'[c].status = "SENT"]_vars

\* C12: restore_card on a card that is already AVAILABLE is a no-op: when
\* such a call ends, the card table and the inventory log are what they were.
C12_RestoreOfAvailableIsNoOp ==
    [][\A s \in Sessions :
          (/\ txn[s].op = "restore_card"
           /\ cards[txn[s].card].status = "AVAILABLE"
           /\ txn'[s].op = "idle")
          => /\ cards' = cards
             /\ cardLog' = cardLog]_vars

\* the commit of the restore_card call open in session s, on a card that
\* take_first_available handed out and that has not been restored since
RestoreOfTakenCommits(s) ==
    /\ txn[s].op = "restore_card"
    /\ txn[s].stage = "logged"
    /\ holdCount[txn[s].card] >= 1
    /\ txn'[s].op = "idle"
    /\ Len(cardLog') = Len(cardLog) + 1

\* C13: round trip: when restore_card commits on a card that
\* take_first_available reserved, the card is AVAILABLE again,
\* count_available for its (type, amount) counts one card more, and the card
\* is among the unlocked rows the next take_first_available selects from.
C13_RoundTrip ==
    [][\A s \in Sessions, c \in CardIds, k \in Denominations :
          (/\ RestoreOfTakenCommits(s)
           /\ c = txn[s].card
           /\ k = <<cards[c].card_type, cards[c].amount>>)
          => /\ cards'[c].status = "AVAILABLE"
             /\ count_available(k[1], k[2])' = count_available(k[1], k[2]) + 1
             /\ c \in SkipLocked(MatchingAvailable(k[1], k[2]),
                                 UNION {txn[u].locks : u \in Sessions})'
       ]_vars

\* a card was reserved by take_first_available, restored, and is now held by
\* a later take_first_available for the same (type, amount)
C13_Witness ==
    \E s \in Sessions, i, j \in 1..Len(cardLog) :
        /\ i < j
        /\ txn[s].op = "take_first_available"
        /\ cardLog[i] = LogRow(txn[s].card, "RESERVE", cardLog[i].actor_id)
        /\ cardLog[j] = LogRow(txn[s].card, "RESTORE", cardLog[j].actor_id)
        /\ holdCount[txn[s].card] = 0

\* session s begins a take_first_available call that selects card c
TakeSelects(s, c) ==
    /\ ~Running(s)
    /\ txn'[s].op = "take_first_available"
    /\ txn'[s].card = c

\* C14: FIFO allocation: the card a take_first_available call selects is a
\* matching AVAILABLE card not locked by another open transaction, and no
\* matching AVAILABLE card with a lower id is unlocked at that moment.
C14_OldestUnlockedFirst ==
    [][\A s \in Sessions, c \in CardIds :
          TakeSelects(s, c) =>
              /\ cards[c].status = "AVAILABLE"
              /\ c \notin LockedByOthers(s)
              /\ \A d \in MatchingAvailable(cards[c].card_type,
                                            cards[c].amount) :
                     d \notin LockedByOthers(s) => c <= d
       ]_vars

\* a take_first_available call holds a card while a newer matching card,
\* returned by the same SELECT, is AVAILABLE
C14_Witness ==
    \E s \in Sessions, d \in CardIds :
        /\ txn[s].op = "take_first_available"
        /\ d \in txn[s].locks
        /\ txn[s].card < d
        /\ cards[d].status = "AVAILABLE"
        /\ cards[txn[s].card].status = "AVAILABLE"

\* C15: no not-found because of contention: whenever a session may call
\* take_first_available and at least one matching AVAILABLE card is not
\* locked by another open transaction, the call selects one of those cards
\* (and reserves it) instead of raising NoResultFound.
C15_NoFalseNegative ==
    \A s \in Sessions, k \in Denominations :
        LET unlocked == {c \in MatchingAvailable(k[1], k[2]) :
                            c \notin LockedByOthers(s)}
        IN  (~Running(s) /\ unlocked # {})
                => FirstRow(SelectedRows(s, k[1], k[2])) \in unlocked

\* a take_first_available call has selected a card while an older matching
\* AVAILABLE card is locked by another open transaction
C15_Witness ==
    \E s, t \in Sessions, d \in CardIds :
        /\ s # t
        /\ txn[s].op = "take_first_available"
        /\ d \in txn[t].locks
        /\ d < txn[s].card
        /\ d \in MatchingAvailable(txn[s].card_type, txn[s].amount)
        /\ cards[txn[s].card].status = "AVAILABLE"

\* cards.py:106-109  what the caller of take_first_available in session s
\* gets back: a Card, or NoResultFound with the one message of line 109
TakeOutcome(s, card_type, amount) ==
    IF FirstRow(SelectedRows(s, card_type, amount)) = None
    THEN "NoResultFound" ELSE "Card"

\* C16: not-found by genuine absence can be told from "all locked": a call
\* made while matching AVAILABLE cards exist, all of them locked by other
\* open transactions, does not end in the NoResultFound that a call made
\* with no matching AVAILABLE card ends in.
C16_AbsenceDistinctFromLocked ==
    \A s \in Sessions, k \in Denominations :
        (/\ ~Running(s)
         /\ MatchingAvailable(k[1], k[2]) # {}
         /\ MatchingAvailable(k[1], k[2]) \subseteq LockedByOthers(s))
        => TakeOutcome(s, k[1], k[2]) # "NoResultFound"


\* ------------------------------------------- SpecLive: calls that may wait
\* The ledger calls of SpecTxn with the call and its SELECT as two steps, so
\* that a SELECT that has to wait for a row lock is a call that stays at
\* stage "called".

\* broken variant: FOR UPDATE without SKIP LOCKED waits for locked rows
SelectCanRun_Waits(s, card_type, amount) ==
    MatchingAvailable(card_type, amount) \cap LockedByOthers(s) = {}

\* cards.py:104  with_for_update(skip_locked=True): the SELECT of
\* take_first_available waits for no row lock
SelectCanRun(s, card_type, amount) == TRUE

\* cards.py:139, 158, 177  session.get(Card, id, with_for_update=True) waits
\* until no other transaction holds the row
GetCanRun(s, card_id) == card_id \notin LockedByOthers(s)

CalledTxn(op, card_id, card_type, amount, actor_id) ==
    [op |-> op, stage |-> "called", card |-> card_id, locks |-> {},
     card_type |-> card_type, amount |-> amount, actor |-> actor_id,
     image |-> NoImage, serial |-> NoSerial]

\* cards.py:88-95  take_first_available is called and opens its session
take_first_available_call(s, card_type, amount, actor_id) ==
    /\ BeginCall(s)
    /\ txn' = [txn EXCEPT ![s] = CalledTxn("take_first_available", None,
                                           card_type, amount, actor_id)]
    /\ UNCHANGED <<ledgerVars, holdCount, race>>

\* cards.py:96-109  the SELECT ... FOR UPDATE SKIP LOCKED runs; the call ends
\* with NoResultFound when it returns no row
take_first_available_select(s) ==
    /\ txn[s].op = "take_first_available"
    /\ txn[s].stage = "called"
    /\ SelectCanRun(s, txn[s].card_type, txn[s].amount)
    /\ LET rows == SelectedRows(s, txn[s].card_type, txn[s].amount)
           card == FirstRow(rows)
       IN  txn' = [txn EXCEPT ![s] =
                      IF card = None THEN IdleTxn
                      ELSE OpenTxn("take_first_available", card, rows,
                                   txn[s].card_type, txn[s].amount,
                                   txn[s].actor)]
    /\ UNCHANGED <<ledgerVars, holdCount, race>>

\* cards.py:136-138, 155-157, 174-176  reserve_card, mark_sent or
\* restore_card is called and opens its session
get_for_update_call(s, op, card_id, actor_id) ==
    /\ BeginCall(s)
    /\ txn' = [txn EXCEPT ![s] = CalledTxn(op, card_id, "ASIA", 0, actor_id)]
    /\ UNCHANGED <<ledgerVars, holdCount, race>>

\* cards.py:138-140, 157-159, 176-178  the row is loaded FOR UPDATE once no
\* other transaction holds it
get_for_update_select(s) ==
    /\ txn[s].op \in {"reserve_card", "mark_sent", "restore_card"}
    /\ txn[s].stage = "called"
    /\ GetCanRun(s, txn[s].card)
    /\ txn' = [txn EXCEPT ![s] =
                  IF RaisesNoResultFound(txn[s].op, txn[s].card) THEN IdleTxn
                  ELSE OpenTxn(txn[s].op, txn[s].card, {txn[s].card},
                               cards[txn[s].card].card_type,
                               cards[txn[s].card].amount, txn[s].actor)]
    /\ UNCHANGED <<ledgerVars, holdCount, race>>

\* the steps of the call open in session s that the database and the event
\* loop carry out once the call has been made
CallStep(s) ==
    \/ take_first_available_select(s)
    \/ get_for_update_select(s)
    \/ TxnFlush(s)
    \/ TxnLog(s)
    \/ TxnCommit(s)

\* cards.py:28-61  add_card as one transaction, while the log has room for
\* the rows of the calls in progress
add_card_commit(card_type, amount, actor_id) ==
    /\ Len(cardLog) + Cardinality({t \in Sessions : Running(t)}) < MaxLog
    /\ admin_add_card(card_type, amount, actor_id)

NextLive ==
    \/ \E k \in Denominations, u \in TxnActors :
           add_card_commit(k[1], k[2], u)
    \/ \E s \in Sessions, k \in Denominations, u \in TxnActors :
           take_first_available_call(s, k[1], k[2], u) /\ UNCHANGED flowVars
    \/ \E s \in Sessions, c \in CardIds, u \in TxnActors,
          op \in {"reserve_card", "mark_sent", "restore_card"} :
           get_for_update_call(s, op, c, u) /\ UNCHANGED flowVars
    \/ \E s \in Sessions :
           take_first_available_select(s) /\ UNCHANGED flowVars
    \/ \E s \in Sessions : get_for_update_select(s) /\ UNCHANGED flowVars
    \/ \E s \in Sessions : TxnFlush(s) /\ UNCHANGED flowVars
    \/ \E s \in Sessions : TxnLog(s) /\ UNCHANGED flowVars
    \/ \E s \in Sessions : TxnCommit(s) /\ UNCHANGED flowVars
    \/ \E s \in Sessions : TxnAbort(s) /\ UNCHANGED flowVars

\* Session s1 is served fairly: a step of its call that stays possible is
\* eventually taken.  Nothing is assumed of session s2, whose transaction
\* may stay open for ever with the row locks it holds.
SpecLive ==
    /\ Init
    /\ [][NextLive]_vars
    /\ WF_vars(CallStep("s1") /\ UNCHANGED flowVars)

\* C17: take_first_available waits for no row lock: every call made in
\* session s1 ends, with a card or with NoResultFound, whatever the other
\* session does, also when its transaction never commits.
C17_TakeTerminates ==
    (txn["s1"].op = "take_first_available") ~> (txn["s1"].op = "idle")

\* the call of session s1 is about to run its SELECT while the open
\* transaction of session s2 holds the lock on a matching AVAILABLE card
C17_Witness ==
    /\ txn["s1"].op = "take_first_available"
    /\ txn["s1"].stage = "called"
    /\ txn["s2"].locks \cap
           MatchingAvailable(txn["s1"].card_type, txn["s1"].amount) # {}


\* ------------------------------------------- SpecSubmit: request submission
\* _process_request for every user, amount and card type, the deactivation
\* of users, and the request-service calls that follow a submission
SubmitAmounts == {0, 5000}

NextSubmit ==
    \/ \E u \in Users, amount \in SubmitAmounts, t \in CardType :
           HistoryRoom /\ process_request(u, amount, t)
    \/ \E u \in Users : deactivate_user(u)
    \/ \E r \in RequestIds, a \in ReqActors, st \in RequestStatus :
           svc_set_status(r, a, st)
    \/ \E r \in RequestIds, c \in CardIds, a \in ReqActors :
           svc_attach_card(r, c, a)
    \/ \E r \in RequestIds, a \in ReqActors : svc_set_approver(r, a)

SpecSubmit == Init /\ [][NextSubmit]_vars

\* a step of _process_request that persists a request: a request row is
\* added by a handler that is not one of the card-sending flows
Submitted == Len(requests') = Len(requests) + 1 /\ flow' = flow

\* C18: role-based routing at submission: the request a USER submits is
\* created PENDING_MANAGER with responsible_id the requester's manager, and
\* only when there is a manager; the request a RESPONSIBLE or an ADMIN submits
\* is created PENDING_ACCOUNTING; the creation writes the request row and one
\* history row from no status to the initial status.
C18_RoleBasedRouting ==
    [][Submitted =>
          LET id == Len(requests')
              r  == requests'[id]
              u  == r.requester_id
          IN  /\ Role[u] = "USER" =>
                     /\ r.status = "PENDING_MANAGER"
                     /\ r.responsible_id = ManagerId(u)
                     /\ r.responsible_id # None
              /\ Role[u] \in {"RESPONSIBLE", "ADMIN"} =>
                     r.status = "PENDING_ACCOUNTING"
              /\ history' = Append(history,
                     HistoryRow(id, u, NoStatus, r.status, ""))
       ]_vars

\* a USER's request waits for the manager while a RESPONSIBLE could submit
\* one of their own
C18_Witness ==
    \E r \in RequestIds :
        /\ Role[requests[r].requester_id] = "USER"
        /\ requests[r].status = "PENDING_MANAGER"
        /\ requests[r].responsible_id = AssignedManager[requests[r].requester_id]
        /\ history = <<HistoryRow(r, requests[r].requester_id, NoStatus,
                                  "PENDING_MANAGER", "")>>


\* --------------------------------------------------- flow claims, part 2
\* handlers/requests.py:375-391  the manager's direct send has delivered the
\* card and its mark_sent commits: the handler has done its work
FastPathCompletes(p) ==
    /\ flow[p].kind = "manager"
    /\ flow[p].pc = "mark_sent"
    /\ flow'[p].kind = "idle"
    /\ cards'[flow[p].card].status = "SENT"

\* C19: manager fast path: when the direct send of the request's responsible
\* has delivered the card and marked it sent, the request is APPROVED, its
\* history has a row PENDING_MANAGER -> APPROVED by that manager, approver_id
\* is that manager, and final_card_id is set and names a card that is SENT.
C19_FastPathAudited ==
    [][\A p \in Workers :
          FastPathCompletes(p) =>
              LET r == flow[p].request
                  m == flow[p].actor
              IN  /\ requests'[r].status = "APPROVED"
                  /\ \E i \in 1..Len(history') :
                         history'[i] = HistoryRow(r, m, "PENDING_MANAGER",
                                                  "APPROVED", "")
                  /\ requests'[r].approver_id = m
                  /\ requests'[r].final_card_id # None
                  /\ cards'[requests'[r].final_card_id].status = "SENT"
       ]_vars


\* ------------------------------------ SpecTwoTier: the two-tier workflow
\* Requests are submitted, decided by the manager and decided by accounting,
\* one handler invocation after the other; no card is sent directly, and the
\* stock holds cards of the amounts that are requested.
NoHandlerRunning == \A q \in Workers : flow[q].kind = "idle"

TwoTierDenominations == {k \in Denominations : k[2] \in RequestAmounts}

NextTwoTier ==
    \/ \E k \in TwoTierDenominations, a \in Admins :
           admin_add_card(k[1], k[2], a)
    \/ \E u \in Deactivatable : deactivate_user(u)
    \/ \E u \in Users, a \in RequestAmounts, t \in CardType :
           process_request(u, a, t)
    \/ \E p \in Workers, m \in Responsibles, r \in RequestIds,
          action \in {"approve", "send", "reject"} :
           NoHandlerRunning /\ handle_manager_decision(p, m, action, r)
    \/ \E p \in Workers, a \in Admins, r \in RequestIds,
          action \in {"approve", "reject"} :
           NoHandlerRunning /\ handle_accounting_decision(p, a, action, r)
    \/ \E p \in Workers : flow_decide(p)
    \/ \E p \in Workers : flow_attach_card(p)
    \/ \E p \in Workers : flow_set_approver(p)
    \/ \E p \in Workers : flow_set_status(p)
    \/ \E p \in Workers, out \in SendOutcomes \cup {"nochat"} :
           flow_deliver(p, out)
    \/ \E p \in Workers : flow_mark_sent(p)
    \/ \E p \in Workers : flow_call_raises(p)

SpecTwoTier == Init /\ [][NextTwoTier]_vars

\* the history rows of request r, in commit order
HistoryOf(r) == SelectSeq(history, LAMBDA h : h.request_id = r)

\* request r was submitted by a USER and forwarded by the manager, and the
\* manager's approval is the only handler invocation so far
ManagerApprovedOnly(r) ==
    /\ Role[requests[r].requester_id] = "USER"
    /\ requests[r].status = "PENDING_ACCOUNTING"
    /\ runs = 1

\* handlers/requests.py:497-533  the accounting approval of request r, the
\* second handler invocation after the manager's approval, commits its
\* mark_sent: the two-tier scenario has run to its end
TwoTierCompletes(p, r) ==
    /\ flow[p].kind = "accounting"
    /\ flow[p].request = r
    /\ flow[p].pc = "mark_sent"
    /\ flow'[p].kind = "idle"
    /\ cards'[flow[p].card].status = "SENT"
    /\ Role[requests[r].requester_id] = "USER"
    /\ runs = 2

TwoTierFirstRows(r) ==
    << HistoryRow(r, requests[r].requester_id, NoStatus,
                  "PENDING_MANAGER", ""),
       HistoryRow(r, requests[r].responsible_id, "PENDING_MANAGER",
                  "PENDING_ACCOUNTING", "") >>

\* the request is APPROVED and its final_card_id names a card that is SENT
ApprovedWithSentCard(r) ==
    /\ requests[r].status = "APPROVED"
    /\ requests[r].final_card_id # None
    /\ cards[requests[r].final_card_id].status = "SENT"

\* C20 as stated: two history rows after the manager's approval; after the
\* accounting approval the request is APPROVED with final_card_id set, the
\* card SENT, and three history rows in total.
C20_ThreeHistoryRows ==
    [][/\ \A r \in 1..Len(requests') :
             ManagerApprovedOnly(r)' =>
                 HistoryOf(r)' = TwoTierFirstRows(r)'
       /\ \A p \in Workers, r \in RequestIds :
             TwoTierCompletes(p, r) =>
                 /\ ApprovedWithSentCard(r)'
                 /\ Len(HistoryOf(r)') = 3
      ]_vars

\* C20 amended: as above with four history rows in total: the two of the
\* first tier, the "Card assigned" row of attach_card with the status
\* unchanged, and PENDING_ACCOUNTING -> APPROVED.
C20_FourHistoryRows ==
    [][/\ \A r \in 1..Len(requests') :
             ManagerApprovedOnly(r)' =>
                 HistoryOf(r)' = TwoTierFirstRows(r)'
       /\ \A p \in Workers, r \in RequestIds :
             TwoTierCompletes(p, r) =>
                 /\ ApprovedWithSentCard(r)'
                 /\ HistoryOf(r)' = TwoTierFirstRows(r)' \o
                        << HistoryRow(r, flow[p].actor, "PENDING_ACCOUNTING",
                                      "PENDING_ACCOUNTING", "Card assigned"),
                           HistoryRow(r, flow[p].actor, "PENDING_ACCOUNTING",
                                      "APPROVED", "") >>
      ]_vars

\* the two-tier scenario has run to its end: two handler invocations, the
\* request APPROVED by an admin with its card SENT
C20_Witness ==
    \E r \in RequestIds :
        /\ Role[requests[r].requester_id] = "USER"
        /\ runs = 2
        /\ \A p \in Workers : flow[p].kind = "idle"
        /\ ApprovedWithSentCard(r)
        /\ Role[requests[r].approver_id] = "ADMIN"
        /\ Len(HistoryOf(r)) = 4

\* ------------------------------------------- add_card and its constraints
\* SpecAdd: add_card step by step, with the argument check of cards.py:38-39
\* and the two table constraints of models.py:128-131.
AddSerials == {NoSerial, "SN1"}
AddTypes   == {"ASIA"}
AddImages  == {NoImage, PhotoFileId}
AddAmounts == {0, 5000}

\* cards.py:38-39  raised before a session is opened
RaisesValueError_Never(image_file_id, serial_number) == FALSE

RaisesValueError(image_file_id, serial_number) ==
    image_file_id = NoImage /\ serial_number = NoSerial

\* models.py:129  CheckConstraint("amount > 0")
ck_card_amount_positive(amount) == amount > 0

\* models.py:130  UniqueConstraint("serial_number"): NULLs never conflict
uq_card_serial_Off(serial_number) == TRUE

uq_card_serial(serial_number) ==
    \/ serial_number = NoSerial
    \/ \A c \in CardIds : CardExists(c) => cards[c].serial # serial_number

\* the INSERT of a serial number that an open transaction has inserted and not
\* yet committed waits for that transaction to end
InsertWaits(s) ==
    /\ txn[s].serial # NoSerial
    /\ \E t \in Sessions \ {s} :
           /\ txn[t].op = "add_card"
           /\ txn[t].stage \in {"flushed", "logged"}
           /\ txn[t].serial = txn[s].serial

\* the call has ended by raising: the session is free again and the caller
\* holds the exception (and still knows the card id it passed)
Raised(s, error) ==
    [IdleTxn EXCEPT !.stage = error, !.card = txn[s].card]

\* cards.py:28-37  the call with its arguments
add_card_call(s, card_type, amount, actor_id, image_file_id, serial_number) ==
    /\ BeginCall(s)
    /\ nextCardId <= MaxCards
    /\ txn' = [txn EXCEPT ![s] =
                  [CalledTxn("add_card", None, card_type, amount, actor_id)
                      EXCEPT !.image = image_file_id,
                             !.serial = serial_number]]
    /\ UNCHANGED <<ledgerVars, holdCount, race>>

\* cards.py:38-49  the argument check, then the session and session.add(card)
add_card_validate(s) ==
    /\ txn[s].op = "add_card"
    /\ txn[s].stage = "called"
    /\ txn' = IF RaisesValueError(txn[s].image, txn[s].serial)
              THEN [txn EXCEPT ![s] = Raised(s, "ValueError")]
              ELSE [txn EXCEPT ![s].stage = "selected"]
    /\ UNCHANGED <<ledgerVars, holdCount, race>>

\* cards.py:50  session.flush(): the INSERT; a violated constraint raises
\* IntegrityError and "async with session" rolls the transaction back
add_card_flush(s) ==
    /\ txn[s].op = "add_card"
    /\ txn[s].stage = "selected"
    /\ ~InsertWaits(s)
    /\ IF ck_card_amount_positive(txn[s].amount) /\ uq_card_serial(txn[s].serial)
       THEN /\ nextCardId <= MaxCards
            /\ txn' = [txn EXCEPT ![s].stage = "flushed",
                                  ![s].card = nextCardId]
            /\ nextCardId' = nextCardId + 1
       ELSE /\ txn' = [txn EXCEPT ![s] =
                         Raised(s, IF ck_card_amount_positive(txn[s].amount)
                                   THEN "IntegrityError uq_card_serial"
                                   ELSE "IntegrityError ck_card_amount_positive")]
            /\ UNCHANGED nextCardId
    /\ UNCHANGED <<cards, cardLog, holdCount, race>>

NextAdd ==
    \/ \E s \in Sessions, card_type \in AddTypes, amount \in AddAmounts,
          actor_id \in TxnActors, image_file_id \in AddImages,
          serial_number \in AddSerials :
           /\ add_card_call(s, card_type, amount, actor_id, image_file_id,
                            serial_number)
           /\ UNCHANGED flowVars
    \/ \E s \in Sessions : add_card_validate(s) /\ UNCHANGED flowVars
    \/ \E s \in Sessions : add_card_flush(s) /\ UNCHANGED flowVars
    \/ \E s \in Sessions : TxnLog(s) /\ UNCHANGED flowVars
    \/ \E s \in Sessions : TxnCommit(s) /\ UNCHANGED flowVars
    \/ \E s \in Sessions : TxnAbort(s) /\ UNCHANGED flowVars

SpecAdd == Init /\ [][NextAdd]_vars

\* the arguments of an open add_card call are ones add_card must refuse
AddRefused(s) ==
    /\ txn[s].op = "add_card"
    /\ \/ txn[s].image = NoImage /\ txn[s].serial = NoSerial
       \/ txn[s].amount <= 0

SerialTaken(s) ==
    /\ txn[s].op = "add_card"
    /\ txn[s].stage = "selected"
    /\ txn[s].serial # NoSerial
    /\ \E c \in CardIds : CardExists(c) /\ cards[c].serial = txn[s].serial

\* C22: no two committed cards share a non-null serial number, and an
\* add_card whose serial number a committed card already has, sequentially or
\* after waiting for a concurrent add_card of the same serial number, goes no
\* further than its INSERT: it ends with the card table and the inventory
\* log unchanged
C22_SerialNumbersUnique ==
    [][/\ \A c, d \in CardIds :
              (c # d /\ CardExists(c)' /\ CardExists(d)'
                     /\ cards'[c].serial = cards'[d].serial)
                  => cards'[c].serial = NoSerial
       /\ \A s \in Sessions :
              (SerialTaken(s) /\ txn'[s] # txn[s]) =>
                  /\ txn'[s].op = "idle"
                  /\ txn'[s].stage \in {"IntegrityError uq_card_serial",
                                        "IntegrityError ck_card_amount_positive",
                                        "none"}
                  /\ cards' = cards
                  /\ cardLog' = cardLog]_vars

\* an add_card with the serial number of the only committed card, and a
\* valid amount, has raised IntegrityError; the card is still the only row
C22_Witness ==
    /\ \E c \in CardIds : CardExists(c) /\ cards[c].serial = "SN1"
    /\ Cardinality({c \in CardIds : CardExists(c)}) = 1
    /\ Len(cardLog) = 1
    /\ \E s \in Sessions :
           /\ txn[s].op = "idle"
           /\ txn[s].stage = "IntegrityError uq_card_serial"

\* --------------------------------- request service calls, statement by
\* statement.  SpecReqTxn: create_request, set_status, attach_card and
\* set_approver of requests.py run by two sessions, each call a transaction
\* of its own: the call, the row read FOR UPDATE (or the INSERT), the commit.
ReqRunning(s) == reqTxn[s].op # "idle"

\* the history rows the open transactions may still write are counted
ReqBeginCall(s) ==
    /\ ~ReqRunning(s)
    /\ Len(history) + Cardinality({t \in Sessions : ReqRunning(t)}) < MaxHistory

ReqCalled(op, request_id, actor_id, new_status, card_id, amount, resp_id) ==
    [op |-> op, stage |-> "called", request |-> request_id,
     actor |-> actor_id, new_status |-> new_status,
     previous_status |-> NoStatus, card |-> card_id, lock |-> None,
     amount |-> amount, responsible |-> resp_id]

\* the call has ended by raising: the transaction is rolled back, its row
\* lock released, and the caller holds the exception (and still knows the
\* request id it passed)
ReqRaised(s, error) ==
    [IdleReqTxn EXCEPT !.stage = error, !.request = reqTxn[s].request]

\* models.py:185-187  CheckConstraint("amount > 0") of rechargerequest
ck_recharge_amount_positive_Off(amount) == TRUE

ck_recharge_amount_positive(amount) == amount > 0

\* requests.py:81-83, 182-184, 214-216  session.get(..., with_for_update=True)
\* waits while another transaction holds the row
RequestLockedByOthers_NoLock(s, request_id) == FALSE

RequestLockedByOthers(s, request_id) ==
    \E t \in Sessions \ {s} : reqTxn[t].lock = request_id

\* requests.py:84-85, 185-186, 217-218  "if request is None"
RequestNotFound(request_id) == request_id \notin RequestIds

\* requests.py:30-41  create_request is called
create_request_call(s, requester_id, responsible_id, amount, status) ==
    /\ ReqBeginCall(s)
    /\ Len(requests) + Cardinality({t \in Sessions :
                                      reqTxn[t].op = "create_request"})
           < MaxRequests
    /\ reqTxn' = [reqTxn EXCEPT ![s] =
                     ReqCalled("create_request", None, requester_id, status,
                               None, amount, responsible_id)]
    /\ UNCHANGED <<requests, history>>

\* requests.py:42-52  the INSERT sent by session.flush(); a non-positive
\* amount violates the check constraint, IntegrityError rolls back
create_request_flush(s) ==
    /\ reqTxn[s].op = "create_request"
    /\ reqTxn[s].stage = "called"
    /\ reqTxn' = [reqTxn EXCEPT ![s] =
                     IF ck_recharge_amount_positive(reqTxn[s].amount)
                     THEN [reqTxn[s] EXCEPT !.stage = "flushed"]
                     ELSE ReqRaised(s, "IntegrityError")]
    /\ UNCHANGED <<requests, history>>

\* requests.py:53-60  _log and session.commit(): the request row and its
\* first history row become visible together
create_request_commit(s) ==
    /\ reqTxn[s].op = "create_request"
    /\ reqTxn[s].stage = "flushed"
    /\ requests' = Append(requests,
           NewRequest(reqTxn[s].actor, reqTxn[s].responsible,
                      reqTxn[s].amount, reqTxn[s].new_status,
                      LineType[reqTxn[s].actor]))
    /\ history' = Append(history,
           HistoryRow(Len(requests) + 1, reqTxn[s].actor, NoStatus,
                      reqTxn[s].new_status, ""))
    /\ reqTxn' = [reqTxn EXCEPT ![s] = IdleReqTxn]

\* requests.py:72-79, 173-179, 206-210  set_status, attach_card or
\* set_approver is called
request_call(s, op, request_id, actor_id, new_status, card_id) ==
    /\ ReqBeginCall(s)
    /\ reqTxn' = [reqTxn EXCEPT ![s] =
                     ReqCalled(op, request_id, actor_id, new_status, card_id,
                               0, None)]
    /\ UNCHANGED <<requests, history>>

\* requests.py:80-86, 181-186, 213-218  the row is read FOR UPDATE; the call
\* raises NoResultFound when there is none, else it holds the row lock and
\* has read the row's status
request_get_for_update(s) ==
    /\ reqTxn[s].op \in {"set_status", "attach_card", "set_approver"}
    /\ reqTxn[s].stage = "called"
    /\ ~RequestLockedByOthers(s, reqTxn[s].request)
    /\ reqTxn' = [reqTxn EXCEPT ![s] =
                     IF RequestNotFound(reqTxn[s].request)
                     THEN ReqRaised(s, "NoResultFound")
                     ELSE [reqTxn[s] EXCEPT
                              !.stage = "locked",
                              !.lock = reqTxn[s].request,
                              !.previous_status =
                                  requests[reqTxn[s].request].status]]
    /\ UNCHANGED <<requests, history>>

\* requests.py:87-98, 187-196, 219-220  the UPDATE of the columns the call
\* assigned, its history row with the status read under the lock, and
\* session.commit()
request_commit(s) ==
    /\ ReqRunning(s)
    /\ reqTxn[s].stage = "locked"
    /\ LET r == reqTxn[s].request
           t == reqTxn[s]
       IN  CASE t.op = "set_status" ->
                  /\ requests' = [requests EXCEPT ![r].status = t.new_status]
                  /\ history' = Append(history,
                         HistoryRow(r, t.actor, t.previous_status,
                                    t.new_status, ""))
             [] t.op = "attach_card" ->
                  /\ requests' = [requests EXCEPT ![r].final_card_id = t.card]
                  /\ history' = Append(history,
                         HistoryRow(r, t.actor, t.previous_status,
                                    t.previous_status, "Card assigned"))
             [] OTHER ->
                  /\ requests' = [requests EXCEPT ![r].approver_id = t.actor]
                  /\ UNCHANGED history
    /\ reqTxn' = [reqTxn EXCEPT ![s] = IdleReqTxn]

\* session.py:23  "async with session": an exception, a lost connection or a
\* crash before commit rolls the transaction back
request_abort(s) ==
    /\ ReqRunning(s)
    /\ reqTxn' = [reqTxn EXCEPT ![s] = IdleReqTxn]
    /\ UNCHANGED <<requests, history>>

UnchangedByRequestCalls ==
    UNCHANGED <<cards, cardLog, nextCardId, txn, holdCount, race, inactive,
                flow, delivered, runs, faults, reports, reportTxn>>

ReqCallIds      == 1..MaxRequests
ReqCallAmounts  == {0, 5000}
ReqCallStatuses == {"APPROVED", "REJECTED"}

NextReqTxn ==
    \/ \E s \in Sessions, amount \in ReqCallAmounts, st \in ReqInitialStatus :
           create_request_call(s, 1, 3, amount, st) /\ UnchangedByRequestCalls
    \/ \E s \in Sessions : create_request_flush(s) /\ UnchangedByRequestCalls
    \/ \E s \in Sessions : create_request_commit(s) /\ UnchangedByRequestCalls
    \/ \E s \in Sessions, r \in ReqCallIds, a \in ReqActors,
          st \in ReqCallStatuses :
           /\ request_call(s, "set_status", r, a, st, None)
           /\ UnchangedByRequestCalls
    \/ \E s \in Sessions, r \in ReqCallIds, a \in ReqActors, c \in {1} :
           /\ request_call(s, "attach_card", r, a, NoStatus, c)
           /\ UnchangedByRequestCalls
    \/ \E s \in Sessions, r \in ReqCallIds, a \in ReqActors :
           /\ request_call(s, "set_approver", r, a, NoStatus, None)
           /\ UnchangedByRequestCalls
    \/ \E s \in Sessions : request_get_for_update(s) /\ UnchangedByRequestCalls
    \/ \E s \in Sessions : request_commit(s) /\ UnchangedByRequestCalls
    \/ \E s \in Sessions : request_abort(s) /\ UnchangedByRequestCalls

SpecReqTxn == Init /\ [][NextReqTxn]_vars

\* the history rows of request r, oldest first
HistoryIndexes(r) == {i \in 1..Len(history) : history[i].request_id = r}

\* C23: create_request with amount <= 0 ends at its INSERT with no request row
\* and no history row written; the commit of a create_request adds the
\* request and exactly one history row, from the null status to the initial
\* status; in every state each request's oldest history row is that row and
\* none of its later rows has the null from_status
C23_CreateWritesOneInitialRow ==
    [][/\ \A s \in Sessions :
              (/\ reqTxn[s].op = "create_request"
               /\ reqTxn[s].amount <= 0
               /\ reqTxn'[s] # reqTxn[s])
                  => /\ reqTxn'[s].op = "idle"
                     /\ requests' = requests
                     /\ history' = history
       /\ Len(requests') # Len(requests) =>
              /\ Len(requests') = Len(requests) + 1
              /\ Len(history') = Len(history) + 1
              /\ history'[Len(history')].request_id = Len(requests')
              /\ history'[Len(history')].from_status = NoStatus
              /\ history'[Len(history')].to_status
                     = requests'[Len(requests')].status
              /\ requests'[Len(requests')].amount > 0
       /\ \A r \in 1..Len(requests') :
              /\ HistoryIndexes(r)' # {}
              /\ \A i \in HistoryIndexes(r)' :
                     (history'[i].from_status = NoStatus)
                         <=> (\A j \in HistoryIndexes(r)' : i <= j)]_vars

\* a create_request with amount 0 has raised and left no row; then a request
\* was created and its status set, so that it has a second history row
C23_Witness ==
    /\ Len(requests) = 1
    /\ Len(history) = 2
    /\ history[2].from_status # NoStatus
    /\ \E s \in Sessions :
           /\ reqTxn[s].op = "idle" /\ reqTxn[s].stage = "IntegrityError"

\* ------------------------------------------ the core operations and their
\* NoResultFound.  SpecCore: the card service called in session s1 and the
\* request service called in session s2, with any arguments, also ids that
\* have no row; each call is made and then either raises or commits.
LedgerSession  == "s1"
RequestSession == "s2"

\* cards.py:62-72  available_summary: the number of AVAILABLE cards for each
\* (card type, amount)
available_summary ==
    [k \in Denominations |->
        Cardinality({c \in CardIds : /\ cards[c].status = "AVAILABLE"
                                     /\ cards[c].card_type = k[1]
                                     /\ cards[c].amount = k[2]})]

\* cards.py:95-113  take_first_available from its SELECT on: NoResultFound
\* when the SELECT returns no row, else the card is RESERVED and logged
take_first_available_outcome(s) ==
    /\ txn[s].op = "take_first_available"
    /\ txn[s].stage = "called"
    /\ LET card == TakeCandidate(txn[s].card_type, txn[s].amount)
       IN  IF card = None
           THEN /\ txn' = [txn EXCEPT ![s] = Raised(s, "NoResultFound")]
                /\ UNCHANGED <<ledgerVars, holdCount>>
           ELSE /\ LedgerCommit(card, "take_first_available", txn[s].actor)
                /\ txn' = [txn EXCEPT ![s] = IdleTxn]
    /\ UNCHANGED race

\* cards.py:138-144, 157-163, 176-182  reserve_card, mark_sent or restore_card
\* from its session.get on
get_for_update_outcome(s) ==
    /\ txn[s].op \in {"reserve_card", "mark_sent", "restore_card"}
    /\ txn[s].stage = "called"
    /\ IF RaisesNoResultFound(txn[s].op, txn[s].card)
       THEN /\ txn' = [txn EXCEPT ![s] = Raised(s, "NoResultFound")]
            /\ UNCHANGED <<ledgerVars, holdCount>>
       ELSE /\ LedgerCommit(txn[s].card, txn[s].op, txn[s].actor)
            /\ txn' = [txn EXCEPT ![s] = IdleTxn]
    /\ UNCHANGED race

\* the calls are made for one denomination, and with request ids up to one
\* that never has a row
CoreDenominations == {<<"ASIA", 5000>>}
CoreCallIds       == 1..(MaxRequests + 1)

\* The two services share no table, so the card service is exercised first,
\* on a database without requests, and the request service after it, once
\* the card service is at rest with at most one inventory-log row written.
RequestServiceUnused ==
    /\ requests = <<>>
    /\ reqTxn = [s \in Sessions |-> IdleReqTxn]

LedgerSettled ==
    /\ ~Running(LedgerSession)
    /\ Len(cardLog) <= 1

NextCore ==
    \/ \E k \in CoreDenominations, u \in TxnActors :
           RequestServiceUnused /\ add_card_commit(k[1], k[2], u)
    \/ \E k \in CoreDenominations, u \in TxnActors :
           /\ RequestServiceUnused
           /\ take_first_available_call(LedgerSession, k[1], k[2], u)
           /\ UNCHANGED flowVars
    \/ \E c \in CardIds, u \in TxnActors,
          op \in {"reserve_card", "mark_sent", "restore_card"} :
           /\ RequestServiceUnused
           /\ get_for_update_call(LedgerSession, op, c, u)
           /\ UNCHANGED flowVars
    \/ take_first_available_outcome(LedgerSession) /\ UNCHANGED flowVars
    \/ get_for_update_outcome(LedgerSession) /\ UNCHANGED flowVars
    \/ \E st \in {"PENDING_MANAGER"} :
           /\ LedgerSettled
           /\ create_request_call(RequestSession, 1, 3, 5000, st)
           /\ UnchangedByRequestCalls
    \/ create_request_flush(RequestSession) /\ UnchangedByRequestCalls
    \/ create_request_commit(RequestSession) /\ UnchangedByRequestCalls
    \/ \E r \in CoreCallIds, a \in ReqActors, st \in ReqCallStatuses :
           /\ LedgerSettled
           /\ request_call(RequestSession, "set_status", r, a, st, None)
           /\ UnchangedByRequestCalls
    \/ \E r \in CoreCallIds, a \in ReqActors, c \in {1} :
           /\ LedgerSettled
           /\ request_call(RequestSession, "attach_card", r, a, NoStatus, c)
           /\ UnchangedByRequestCalls
    \/ \E r \in CoreCallIds, a \in ReqActors :
           /\ LedgerSettled
           /\ request_call(RequestSession, "set_approver", r, a, NoStatus,
                           None)
           /\ UnchangedByRequestCalls
    \/ request_get_for_update(RequestSession) /\ UnchangedByRequestCalls
    \/ request_commit(RequestSession) /\ UnchangedByRequestCalls

SpecCore == Init /\ [][NextCore]_vars

\* the card, inventory-log, request and history tables and the summary of
\* AVAILABLE cards are the same before and after the step
PersistedUnchanged ==
    /\ cards' = cards
    /\ cardLog' = cardLog
    /\ requests' = requests
    /\ history' = history
    /\ available_summary' = available_summary

\* the card-service call about to run has nothing to find
LedgerNothingToFind(s) ==
    /\ txn[s].stage = "called"
    /\ \/ /\ txn[s].op = "take_first_available"
          /\ MatchingAvailable(txn[s].card_type, txn[s].amount) = {}
       \/ /\ txn[s].op \in {"mark_sent", "restore_card"}
          /\ ~CardExists(txn[s].card)

\* the request-service call about to run names an id that has no row
RequestNothingToFind(s) ==
    /\ reqTxn[s].stage = "called"
    /\ reqTxn[s].op \in {"set_status", "attach_card", "set_approver"}
    /\ reqTxn[s].request \notin 1..Len(requests)

\* C24: take_first_available with no matching AVAILABLE card, and mark_sent,
\* restore_card, set_status, attach_card and set_approver on an id that has
\* no row, end with NoResultFound, and every call that ends with
\* NoResultFound leaves the card, inventory-log, request and history tables
\* and available_summary as they were
C24_NotFoundChangesNothing ==
    [][/\ \A s \in Sessions :
              (LedgerNothingToFind(s) /\ txn'[s] # txn[s]) =>
                  txn'[s].op = "idle" /\ txn'[s].stage = "NoResultFound"
       /\ \A s \in Sessions :
              (RequestNothingToFind(s) /\ reqTxn'[s] # reqTxn[s]) =>
                  reqTxn'[s].op = "idle" /\ reqTxn'[s].stage = "NoResultFound"
       /\ \A s \in Sessions :
              (\/ Running(s) /\ txn'[s].stage = "NoResultFound"
               \/ ReqRunning(s) /\ reqTxn'[s].stage = "NoResultFound")
                  => PersistedUnchanged]_vars

\* with one AVAILABLE card and one request in the tables, a mark_sent on a
\* card id that has no row and a set_status on a request id that has no row
\* have both raised NoResultFound
C24_Witness ==
    /\ \E c \in CardIds : cards[c].status = "AVAILABLE"
    /\ Len(requests) = 1
    /\ txn[LedgerSession].op = "idle"
    /\ txn[LedgerSession].stage = "NoResultFound"
    /\ txn[LedgerSession].card # None
    /\ ~CardExists(txn[LedgerSession].card)
    /\ reqTxn[RequestSession].op = "idle"
    /\ reqTxn[RequestSession].stage = "NoResultFound"
    /\ reqTxn[RequestSession].request # None
    /\ reqTxn[RequestSession].request \notin 1..Len(requests)

ReportPeriods == {1, 2}
\* the (total_amount, report_path) pairs the calls are made with
ReportArgs    == {<<10, "a.xlsx">>, <<20, "a.xlsx">>, <<10, "b.xlsx">>}

\* the index of the MonthlyReport row of a period, None when it has none
ReportIndex(period) ==
    LET idx == {i \in 1..Len(reports) : reports[i].period = period}
    IN  IF idx = {} THEN None ELSE CHOOSE i \in idx : \A j \in idx : i <= j

ReportRunning(s) == reportTxn[s].op # "idle"

\* requests.py:228-235  the call with its arguments
record_monthly_report_call(s, period, total_amount, report_path) ==
    /\ ~ReportRunning(s)
    /\ reportTxn' = [reportTxn EXCEPT ![s] =
                        [IdleReportTxn EXCEPT
                            !.op = "record_monthly_report",
                            !.stage = "called",
                            !.period = period,
                            !.total_amount = total_amount,
                            !.report_path = report_path]]
    /\ UNCHANGED reports

\* requests.py:237-242  the SELECT by period and .first(): a plain read, the
\* row's columns are loaded into the session
record_monthly_report_select(s) ==
    /\ reportTxn[s].op = "record_monthly_report"
    /\ reportTxn[s].stage = "called"
    /\ LET i == ReportIndex(reportTxn[s].period)
       IN  reportTxn' = [reportTxn EXCEPT ![s] =
               IF i = None
               THEN [reportTxn[s] EXCEPT !.stage = "selected", !.found = None]
               ELSE [reportTxn[s] EXCEPT
                        !.stage = "selected", !.found = i,
                        !.loaded_total = reports[i].total_amount,
                        !.loaded_path = reports[i].report_path]]
    /\ UNCHANGED reports

\* variant: the UPDATE writes both columns whether or not the session saw
\* them change
UpdatedReport_AllColumns(s) ==
    [reports[reportTxn[s].found] EXCEPT
        !.total_amount = reportTxn[s].total_amount,
        !.report_path = reportTxn[s].report_path]

\* requests.py:243-245  the assignments to the loaded row; at commit the
\* unit of work sends an UPDATE of the columns whose value differs from the
\* loaded one, the other columns keep what the table holds
UpdatedReport(s) ==
    [reports[reportTxn[s].found] EXCEPT
        !.total_amount =
            IF reportTxn[s].total_amount # reportTxn[s].loaded_total
            THEN reportTxn[s].total_amount ELSE @,
        !.report_path =
            IF reportTxn[s].report_path # reportTxn[s].loaded_path
            THEN reportTxn[s].report_path ELSE @]

\* requests.py:243-254  session.commit(): the UPDATE of the row found, or
\* the INSERT of a new row, which uq_monthly_report_period (models.py:215-219)
\* refuses with IntegrityError when the period has got a row meanwhile
record_monthly_report_commit(s) ==
    /\ reportTxn[s].op = "record_monthly_report"
    /\ reportTxn[s].stage = "selected"
    /\ IF reportTxn[s].found # None
       THEN /\ reports' = [reports EXCEPT
                              ![reportTxn[s].found] = UpdatedReport(s)]
            /\ reportTxn' = [reportTxn EXCEPT ![s] = IdleReportTxn]
       ELSE IF ReportIndex(reportTxn[s].period) = None
       THEN /\ reports' = Append(reports,
                   [period |-> reportTxn[s].period,
                    total_amount |-> reportTxn[s].total_amount,
                    report_path |-> reportTxn[s].report_path])
            /\ reportTxn' = [reportTxn EXCEPT ![s] = IdleReportTxn]
       ELSE /\ reportTxn' = [reportTxn EXCEPT ![s] =
                                [IdleReportTxn EXCEPT
                                    !.stage = "IntegrityError"]]
            /\ UNCHANGED reports

\* session.py:23  "async with session": the call fails before its commit (an
\* error of the database, a lost connection) and is rolled back
record_monthly_report_abort(s) ==
    /\ ReportRunning(s)
    /\ reportTxn' = [reportTxn EXCEPT ![s] = IdleReportTxn]
    /\ UNCHANGED reports

UnchangedByReportCalls ==
    UNCHANGED <<cards, cardLog, nextCardId, txn, holdCount, race, requests,
                history, inactive, flow, delivered, runs, faults, reqTxn>>

NextReport ==
    \/ \E s \in Sessions, period \in ReportPeriods, a \in ReportArgs :
           /\ record_monthly_report_call(s, period, a[1], a[2])
           /\ UnchangedByReportCalls
    \/ \E s \in Sessions :
           record_monthly_report_select(s) /\ UnchangedByReportCalls
    \/ \E s \in Sessions :
           record_monthly_report_commit(s) /\ UnchangedByReportCalls
    \/ \E s \in Sessions :
           record_monthly_report_abort(s) /\ UnchangedByReportCalls

SpecReport == Init /\ [][NextReport]_vars

\* the call of session s commits in this step and has written to the table
ReportCommits(s) ==
    /\ reportTxn[s].stage = "selected"
    /\ reportTxn'[s] = IdleReportTxn
    /\ reports' # reports

\* C26: record_monthly_report is an upsert keyed by the period: there is at
\* most one MonthlyReport row per period, and when a call commits what it
\* wrote, also a call that ran concurrently with another, the row of its
\* period holds the total_amount and the report_path the call was given
C26_ReportHoldsLastCall ==
    [][/\ \A i, j \in 1..Len(reports') :
              reports'[i].period = reports'[j].period => i = j
       /\ \A s \in Sessions :
              ReportCommits(s) =>
                  \E i \in 1..Len(reports') :
                      /\ reports'[i].period = reportTxn[s].period
                      /\ reports'[i].total_amount = reportTxn[s].total_amount
                      /\ reports'[i].report_path = reportTxn[s].report_path]_vars

\* C27: attach_card never sets final_card_id on a request whose status is
\* REJECTED or CANCELLED: in every step that changes a request's
\* final_card_id the request is in neither status
C27_NoCardOnRejectedRequest ==
    [][\A r \in 1..Len(requests) :
           requests'[r].final_card_id # requests[r].final_card_id =>
               requests[r].status \notin {"REJECTED", "CANCELLED"}]_vars

\* C28: mark_sent is executed for a card only after the delivery of that card
\* was attempted and reported success: in every step of a handler's
\* mark_sent the card has been delivered to the flow's requester
C28_SentOnlyAfterDelivery ==
    [][\A p \in Workers :
           (flow[p].pc = "mark_sent" /\ flow'[p].pc # "mark_sent"
                                     /\ cardLog' # cardLog)
               => <<flow[p].card, flow[p].target>> \in delivered]_vars

\* the callers other than handle_accounting_decision keep the rule of C28
SentOnlyAfterDelivery_OtherFlows ==
    [][\A p \in Workers :
           (flow[p].pc = "mark_sent" /\ flow'[p].pc # "mark_sent"
                                     /\ cardLog' # cardLog
                                     /\ flow[p].kind # "accounting")
               => <<flow[p].card, flow[p].target>> \in delivered]_vars

\* the history row of request r written just before row i, None for its
\* first row
PreviousRow(r, i) ==
    LET before == {j \in HistoryIndexes(r) : j < i}
    IN  IF before = {} THEN None
        ELSE CHOOSE j \in before : \A k \in before : k <= j

\* each history row of a request starts from the status its previous row
\* ended in, and the request is in the status its newest row ended in
HistoryChained ==
    \A r \in 1..Len(requests) :
        /\ \A i \in HistoryIndexes(r) :
               PreviousRow(r, i) # None =>
                   history[i].from_status
                       = history[PreviousRow(r, i)].to_status
        /\ \A i \in HistoryIndexes(r) :
               (\A j \in HistoryIndexes(r) : j <= i) =>
                   requests[r].status = history[i].to_status

\* C29: concurrent set_status and attach_card calls on one request are
\* serialised by the row lock: when such a call commits, the status it read
\* under the lock is still the request's status, so the from_status it
\* records is the true one; in commit order each history row of a request
\* starts from the to_status of the row before it, and the request's status
\* is the to_status of its newest row (no status update is lost)
C29_SetStatusSerialised ==
    [][/\ \A s \in Sessions :
              (/\ reqTxn[s].op \in {"set_status", "attach_card"}
               /\ reqTxn[s].stage = "locked"
               /\ reqTxn'[s].op = "idle"
               /\ history' # history)
                  => /\ reqTxn[s].previous_status
                            = requests[reqTxn[s].request].status
                     /\ history'[Len(history')].from_status
                            = requests[reqTxn[s].request].status
                     /\ history'[Len(history')].to_status
                            = requests'[reqTxn[s].request].status
       /\ HistoryChained']_vars

\* a set_status holds the lock of a request that already has two history
\* rows while an attach_card on the same request waits for that lock
C29_Witness ==
    /\ Len(history) = 2
    /\ reqTxn["s1"].op = "set_status"
    /\ reqTxn["s1"].stage = "locked"
    /\ reqTxn["s2"].op = "attach_card"
    /\ reqTxn["s2"].stage = "called"
    /\ reqTxn["s2"].request = reqTxn["s1"].request

\* what set_status(r, a, st) is to leave behind: the status is st, the other
\* columns and requests are untouched, and the one row appended to the
\* history goes from the status the request had to st
StatusSet(r, a, st) ==
    /\ requests' = [requests EXCEPT ![r].status = st]
    /\ history' = Append(history,
                         HistoryRow(r, a, requests[r].status, st, ""))

\* C30: set_status has no transition table: in every reachable state, for
\* every existing request and every status, also the request's own status
\* and whatever status it is in (APPROVED and REJECTED included), the call
\* can be made, and it can only end with the status set to the new status
\* and the actual (from, to) pair recorded
C30_NoTransitionTable ==
    \A r \in 1..Len(requests), a \in ReqActors, st \in RequestStatus :
        /\ ENABLED set_status(r, a, st, "")
        /\ ~ENABLED (set_status(r, a, st, "") /\ ~StatusSet(r, a, st))

\* a request became APPROVED, then REJECTED, then REJECTED again
C30_Witness ==
    /\ Len(history) = 4
    /\ history[2].to_status = "APPROVED"
    /\ history[3].from_status = "APPROVED"
    /\ history[3].to_status = "REJECTED"
    /\ history[4].from_status = "REJECTED"
    /\ history[4].to_status = "REJECTED"
    /\ history[4].note = ""
    /\ requests[1].status = "REJECTED"

\* the inventory-log rows of card c, in commit order
LogIndexes(c) == {i \in 1..Len(cardLog) : cardLog[i].card_id = c}

\* C31: in every card's inventory log, in commit order, the first entry is
\* ADD and it is the only ADD, and between any two RESERVE entries there is
\* a RESTORE entry
C31_LogOrder ==
    \A c \in CardIds :
        /\ \A i \in LogIndexes(c) :
               (cardLog[i].action = "ADD")
                   <=> (\A j \in LogIndexes(c) : i <= j)
        /\ \A i, j \in LogIndexes(c) :
               (i < j /\ cardLog[i].action = "RESERVE"
                      /\ cardLog[j].action = "RESERVE")
                   => \E k \in LogIndexes(c) :
                          i < k /\ k < j /\ cardLog[k].action = "RESTORE"

\* a card was added, reserved, restored and reserved again
C31_Witness ==
    \E c \in CardIds :
        /\ Len(cardLog) = 4
        /\ \A i \in 1..4 : cardLog[i].card_id = c
        /\ cardLog[1].action = "ADD"
        /\ cardLog[2].action = "RESERVE"
        /\ cardLog[3].action = "RESTORE"
        /\ cardLog[4].action = "RESERVE"

\* C32: every request whose status is APPROVED has a card attached
C32_ApprovedHasCard ==
    \A r \in 1..Len(requests) :
        requests[r].status = "APPROVED" => requests[r].final_card_id # None

\* a request was approved by a handler that attached a card to it before
C32_Witness ==
    \E r \in 1..Len(requests) :
        /\ requests[r].status = "APPROVED"
        /\ requests[r].final_card_id \in CardIds
        /\ \E i, j \in 1..Len(history) :
               /\ i < j
               /\ history[i].request_id = r
               /\ history[i].note = "Card assigned"
               /\ history[j].request_id = r
               /\ history[j].to_status = "APPROVED"

\* C33: whenever a request is APPROVED and no handler invocation is still
\* running, the card its final_card_id refers to is SENT
C33_ApprovedCardIsSent ==
    NoHandlerRunning =>
        \A r \in 1..Len(requests) :
            (requests[r].status = "APPROVED"
                 /\ requests[r].final_card_id \in CardIds)
                => cards[requests[r].final_card_id].status = "SENT"

\* C34: no card is the final_card_id of two different requests
C34_CardAttachedToOneRequest ==
    \A r1, r2 \in 1..Len(requests) :
        (r1 # r2 /\ requests[r1].final_card_id \in CardIds)
            => requests[r1].final_card_id # requests[r2].final_card_id

\* ------------------------------------ SpecAuth: decisions by any user
\* Requests are submitted and any active user, whatever the role, presses
\* any decision button on any request; two handler invocations may run at
\* the same time and a call may fail.  No card is sent directly.
NextAuth ==
    \/ \E k \in TwoTierDenominations, a \in Admins :
           admin_add_card(k[1], k[2], a)
    \/ \E u \in Deactivatable : deactivate_user(u)
    \/ \E u \in Directory, a \in RequestAmounts, t \in CardType :
           process_request(u, a, t)
    \/ \E p \in Workers, m \in Directory, r \in RequestIds,
          action \in {"approve", "send", "reject"} :
           handle_manager_decision(p, m, action, r)
    \/ \E p \in Workers, a \in Directory, r \in RequestIds,
          action \in {"approve", "reject"} :
           handle_accounting_decision(p, a, action, r)
    \/ \E p \in Workers : flow_decide(p)
    \/ \E p \in Workers : flow_attach_card(p)
    \/ \E p \in Workers : flow_set_approver(p)
    \/ \E p \in Workers : flow_set_status(p)
    \/ \E p \in Workers, out \in SendOutcomes \cup {"nochat"} :
           flow_deliver(p, out)
    \/ \E p \in Workers : flow_mark_sent(p)
    \/ \E p \in Workers : flow_call_raises(p)

SpecAuth == Init /\ [][NextAuth]_vars

\* the handler invocation of worker p that takes the step, if one does
Acting(p) == IF flow[p].kind = "idle" THEN flow'[p] ELSE flow[p]

\* the checks the decision handlers make on the acting user
Authorized(f) ==
    /\ f.kind = "manager" =>
           /\ requests[f.request].responsible_id = f.actor
           /\ f.action = "send" => CanApproveDirectly[f.actor]
    /\ f.kind = "accounting" => Role[f.actor] = "ADMIN"

\* the status the request had when the handler starting in this step read it
PendingWhenChecked(p) ==
    flow[p].kind = "idle" =>
        requests[flow'[p].request].status =
            (IF flow'[p].kind = "manager" THEN "PENDING_MANAGER"
             ELSE "PENDING_ACCOUNTING")

\* C35: a decision handler changes a request or reserves a card only if the
\* acting user passed the handler's checks: for the manager decision the user
\* is the request's responsible_id, the request was PENDING_MANAGER when
\* checked, and "send" needs can_approve_directly; for the accounting decision
\* the user is an ADMIN and the request was PENDING_ACCOUNTING when checked.
\* Every start of a handler invocation passed the checks, and every change of
\* an existing request and every reservation is a step of such an invocation
C35_Authorization ==
    [][/\ \A p \in Workers :
              (flow'[p] # flow[p] /\ Acting(p).kind \in {"manager", "accounting"})
                  => Authorized(Acting(p)) /\ PendingWhenChecked(p)
       /\ \A r \in RequestIds :
              requests'[r] # requests[r] =>
                  \E p \in Workers :
                      /\ flow'[p] # flow[p]
                      /\ Acting(p).request = r
                      /\ Authorized(Acting(p))
       /\ \A c \in CardIds :
              (cards'[c].status = "RESERVED" /\ cards[c].status # "RESERVED")
                  => \E p \in Workers :
                         /\ flow[p].kind = "idle"
                         /\ flow'[p].card = c
                         /\ Authorized(flow'[p])
                         /\ PendingWhenChecked(p)]_vars

\* the manager of a request forwarded it to accounting, and an admin's
\* approval has reserved a card for it
C35_Witness ==
    \E p \in Workers, i \in 1..Len(history) :
        /\ flow[p].kind = "accounting"
        /\ Role[flow[p].actor] = "ADMIN"
        /\ flow[p].card \in CardIds
        /\ cards[flow[p].card].status = "RESERVED"
        /\ history[i].request_id = flow[p].request
        /\ history[i].from_status = "PENDING_MANAGER"
        /\ history[i].to_status = "PENDING_ACCOUNTING"
        /\ history[i].actor_id = requests[flow[p].request].responsible_id

\* C36: for every request that has a card attached, the amount of the
\* attached card equals the amount of the request
C36_AttachedAmountMatches ==
    \A r \in 1..Len(requests) :
        requests[r].final_card_id \in CardIds =>
            cards[requests[r].final_card_id].amount = requests[r].amount

\* two requests of different amounts each have a card attached
C36_Witness ==
    \E r1, r2 \in 1..Len(requests) :
        /\ r1 # r2
        /\ requests[r1].final_card_id \in CardIds
        /\ requests[r2].final_card_id \in CardIds
        /\ requests[r1].amount # requests[r2].amount

\* C37: for every request that has a requested card_type and a card attached,
\* the type of the attached card equals the request's card_type
C37_AttachedTypeMatches ==
    \A r \in 1..Len(requests) :
        (requests[r].card_type \in CardType
             /\ requests[r].final_card_id \in CardIds)
            => cards[requests[r].final_card_id].card_type
                   = requests[r].card_type

\* C38: every request whose status is PENDING_MANAGER has a responsible_id
C38_PendingManagerHasResponsible ==
    \A r \in 1..Len(requests) :
        requests[r].status = "PENDING_MANAGER" =>
            requests[r].responsible_id # None

====
